---- MODULE Spec2Model ----
(***************************************************************************)
(* A model of the tree subsystem of coding-interview-prep: the C gen_tree  *)
(* and binary_tree of c/src/tree.c and the C++ tree and binary_tree of     *)
(* cpp/src/tree.cc, and of the C linked lists of c/src/link.c.  Nodes live *)
(* in a heap indexed by node handles; every library function is an         *)
(* operator computed the way its code computes it, or a sequence of steps  *)
(* where its termination is in question, and every call a client can make  *)
(* is an action.                                                           *)
(***************************************************************************)
EXTENDS Integers, Sequences, FiniteSets, TLC

VARIABLES
  client,    \* which client drives the library: "inserter", "builder", "grower",
             \* "walker", "maker"
  lib,       \* which library the run links: "c_binary_tree", "cpp_binary_tree", ...
  heap,      \* live nodes: handle -> node record
  fault,     \* "none", or how the process died ("assert", "double_free", ...)
  op,        \* the last call made: [name, node, value, child, had]
  ret,       \* what the last call returned
  pure,      \* history: every mutation so far was insert(non-NaN) on node 1
  inserted,  \* history: the non-NaN values passed to insert on node 1 while pure
  edits,     \* history: how many constructor and setter calls the client made
  frame      \* the locals of the counting function that is running, if any

vars == <<client, lib, heap, fault, op, ret, pure, inserted, edits, frame>>

-----------------------------------------------------------------------------
(* Bounds of the model *)

\* the inserter keeps at most MaxNodes nodes and uses the finite doubles 1..MaxVal
MaxNodes == 3
MaxVal == 3
\* the builder keeps at most MaxBuilt nodes and uses the doubles 1..MaxBuiltVal
MaxBuilt == 3
MaxBuiltVal == 2
\* and makes at most MaxEdits calls that relink or overwrite nodes: setters,
\* and constructors that are given children
MaxEdits == 1
\* the grower keeps at most MaxTreeNodes nodes and gives a node at most MaxFan
\* children at a time
MaxTreeNodes == 4
MaxFan == 2
\* the counter keeps lists of at most MaxLinks links, and a size_t has SizeBits
\* bits
MaxLinks == 3
SizeBits == 3
\* the linker keeps chains of at most MaxChain links, inserts at most MaxInsert
\* values at a time and uses the doubles 1..MaxLinkVal
MaxChain == 4
MaxInsert == 2
MaxLinkVal == 2
\* the sharer keeps at most MaxObjects objects, nodes and children vectors
MaxObjects == 5
\* and makes at most MaxShares calls that change a node
MaxShares == 4

(* Program constants *)

\* the null pointer / nullptr
NULL == 0
\* the "unset" sentinel; compares false with everything, itself included
NaN == -1

\* at most Cap nodes are live at a time, and their handles are in Handles
Cap ==
  IF client = "inserter" THEN MaxNodes
  ELSE IF client = "builder" THEN MaxBuilt ELSE MaxTreeNodes
Handles == 1..(IF client \in {"grower", "walker", "maker"} THEN MaxFan ^ Cap ELSE 2 ^ Cap - 1)
\* the grower's, the walker's and the maker's trees store the one real value 1
Finite ==
  1..(IF client = "inserter" THEN MaxVal
      ELSE IF client = "builder" THEN MaxBuiltVal
      ELSE IF client = "linker" THEN MaxLinkVal ELSE 1)
Doubles == Finite \cup {NaN}

isnan(x) == x = NaN
\* IEEE comparison of doubles: any comparison with NaN is false
FEq(a, b) == ~isnan(a) /\ ~isnan(b) /\ a = b
FLt(a, b) == ~isnan(a) /\ ~isnan(b) /\ a < b

\* The allocator may hand out any handle that is not live.  The model picks
\* one: the node's place in its tree (the left child of n at 2n, the right
\* child at 2n + 1), or the lowest free handle when that one is taken.
NewId(h, pos) ==
  IF pos \in Handles \ DOMAIN h THEN pos
  ELSE CHOOSE i \in Handles : i \notin DOMAIN h /\ \A j \in 1..(i - 1) : j \in DOMAIN h
Alloc(h, pos, node) ==
  [i \in DOMAIN h \cup {NewId(h, pos)} |-> IF i \in DOMAIN h THEN h[i] ELSE node]
LeftPos(n) == 2 * n
RightPos(n) == 2 * n + 1
\* a heap the model has room for
Fits(h) == Cardinality(DOMAIN h) <= Cap

\* no counting function is running
NoFrame == [pc |-> "idle", fn |-> "none", p |-> "none", h |-> NULL, cur |-> NULL, n_p |-> 0]

\* op.child is the handle a setter was given; op.had tells whether the value
\* handed to insert was already stored in the tree of node 1
NoOp == [name |-> "none", node |-> NULL, value |-> NaN, child |-> NULL, had |-> FALSE]
Call(name, node, v, child, had) ==
  [name |-> name, node |-> node, value |-> v, child |-> child, had |-> had]

-----------------------------------------------------------------------------
(* C++ tree / binary_tree, cpp/src/tree.cc.  A node is [value_,           *)
(* children_]; children_ is a shared pointer to a vector of handles:       *)
(* nullptr is the empty tuple, a pointer to vector vec is <<vec>>.         *)

nullptr == <<>>
make_shared(vec) == <<vec>>

\* binary_tree::binary_tree(value, left, right): a tree whose children
\* collection is the two-slot vector {left, right}
binary_tree(v, l, r) == [value_ |-> v, children_ |-> make_shared(<<l, r>>)]

\* tree::value(), tree::children()
value(h, this) == h[this].value_
children(h, this) == h[this].children_

\* std::vector::at through the pointer, counted from 0
at(ptr, i) == ptr[1][i + 1]

\* binary_tree::left(): children()->at(0)
left(h, this) == at(children(h, this), 0)
\* binary_tree::right(): children()->at(1)
right(h, this) == at(children(h, this), 1)

\* tree::set_value
set_value(h, this, v) == [h EXCEPT ![this].value_ = v]

\* tree::set_children
set_children(h, this, c) == [h EXCEPT ![this].children_ = c]

\* a set_left that forgets the other slot
set_left_drops_right(h, this, new_left) == set_children(h, this, make_shared(<<new_left, NULL>>))

\* binary_tree::set_left: a new two-slot vector {new_left, old at(1)}
set_left(h, this, new_left) ==
  set_children(h, this, make_shared(<<new_left, at(children(h, this), 1)>>))

\* a set_right that appends the new child after the old slots
set_right_appends_slot(h, this, new_right) ==
  [h EXCEPT ![this].children_ = <<Append(h[this].children_[1], new_right)>>]

\* binary_tree::set_right: a new two-slot vector {old at(0), new_right}
set_right(h, this, new_right) ==
  set_children(h, this, make_shared(<<at(children(h, this), 0), new_right>>))

\* an insert that descends left on greater values too
RECURSIVE insert_always_left(_, _, _)
insert_always_left(h, this, v) ==
  IF isnan(value(h, this)) THEN [heap |-> set_value(h, this, v), ret |-> this]
  ELSE IF FEq(v, value(h, this)) THEN [heap |-> h, ret |-> this]
  ELSE LET h1 == IF left(h, this) = NULL
                 THEN set_left(Alloc(h, LeftPos(this), binary_tree(NaN, NULL, NULL)),
                            this, NewId(h, LeftPos(this)))
                 ELSE h
       IN insert_always_left(h1, left(h1, this), v)

\* an insert whose node adopts every value handed to it
insert_adopts_always(h, this, v) == [heap |-> set_value(h, this, v), ret |-> this]

\* an insert that, on an unset node, stores the value in a new left child
RECURSIVE insert_below_unset(_, _, _)
insert_below_unset(h, this, v) ==
  IF isnan(value(h, this)) THEN
    [heap |-> set_left(Alloc(h, LeftPos(this), binary_tree(v, NULL, NULL)),
                       this, NewId(h, LeftPos(this))),
     ret |-> NewId(h, LeftPos(this))]
  ELSE IF FEq(v, value(h, this)) THEN [heap |-> h, ret |-> this]
  ELSE IF FLt(v, value(h, this)) THEN
    LET h1 == IF left(h, this) = NULL
              THEN set_left(Alloc(h, LeftPos(this), binary_tree(NaN, NULL, NULL)),
                            this, NewId(h, LeftPos(this)))
              ELSE h
    IN insert_below_unset(h1, left(h1, this), v)
  ELSE
    LET h1 == IF right(h, this) = NULL
              THEN set_right(Alloc(h, RightPos(this), binary_tree(NaN, NULL, NULL)),
                             this, NewId(h, RightPos(this)))
              ELSE h
    IN insert_below_unset(h1, right(h1, this), v)

\* binary_tree::insert
RECURSIVE insert(_, _, _)
insert(h, this, v) ==
  IF isnan(value(h, this)) THEN [heap |-> set_value(h, this, v), ret |-> this]
  ELSE IF FEq(v, value(h, this)) THEN [heap |-> h, ret |-> this]
  ELSE IF FLt(v, value(h, this)) THEN
    LET h1 == IF left(h, this) = NULL
              THEN set_left(Alloc(h, LeftPos(this), binary_tree(NaN, NULL, NULL)),
                            this, NewId(h, LeftPos(this)))
              ELSE h
    IN insert(h1, left(h1, this), v)
  ELSE
    LET h1 == IF right(h, this) = NULL
              THEN set_right(Alloc(h, RightPos(this), binary_tree(NaN, NULL, NULL)),
                             this, NewId(h, RightPos(this)))
              ELSE h
    IN insert(h1, right(h1, this), v)

\* a sorted_values that gives up on an unset node, as the C one does
RECURSIVE sorted_values_skips_unset(_, _)
sorted_values_skips_unset(h, this) ==
  IF children(h, this) = nullptr \/ isnan(value(h, this)) THEN <<>>
  ELSE
    LET left_values == IF left(h, this) # NULL
                       THEN sorted_values_skips_unset(h, left(h, this)) ELSE <<>>
        right_values == IF right(h, this) # NULL
                        THEN sorted_values_skips_unset(h, right(h, this)) ELSE <<>>
    IN Append(left_values, value(h, this)) \o right_values

\* binary_tree::sorted_values
RECURSIVE sorted_values(_, _)
sorted_values(h, this) ==
  IF children(h, this) = nullptr THEN <<>>
  ELSE
    LET left_values == IF left(h, this) # NULL
                       THEN sorted_values(h, left(h, this)) ELSE <<>>
        right_values == IF right(h, this) # NULL
                        THEN sorted_values(h, right(h, this)) ELSE <<>>
        pushed == IF ~isnan(value(h, this))
                  THEN Append(left_values, value(h, this)) ELSE left_values
    IN pushed \o right_values

-----------------------------------------------------------------------------
(* C binary_tree, c/src/tree.c.  A node is [value, left, right].           *)

\* binary_tree_malloc
binary_tree_malloc(v, l, r) == [value |-> v, left |-> l, right |-> r]

\* a binary_tree_insert without the test for an equal value
RECURSIVE binary_tree_insert_no_eq(_, _, _)
binary_tree_insert_no_eq(h, tree, v) ==
  IF isnan(h[tree].value) THEN [heap |-> [h EXCEPT ![tree].value = v], ret |-> tree]
  ELSE IF FLt(v, h[tree].value) THEN
    LET h1 == IF h[tree].left = NULL
              THEN [Alloc(h, LeftPos(tree), binary_tree_malloc(NaN, NULL, NULL))
                      EXCEPT ![tree].left = NewId(h, LeftPos(tree))]
              ELSE h
    IN binary_tree_insert_no_eq(h1, h1[tree].left, v)
  ELSE
    LET h1 == IF h[tree].right = NULL
              THEN [Alloc(h, RightPos(tree), binary_tree_malloc(NaN, NULL, NULL))
                      EXCEPT ![tree].right = NewId(h, RightPos(tree))]
              ELSE h
    IN binary_tree_insert_no_eq(h1, h1[tree].right, v)

\* a binary_tree_insert that returns the node it was called on
RECURSIVE binary_tree_insert_returns_tree(_, _, _)
binary_tree_insert_returns_tree(h, tree, v) ==
  IF isnan(h[tree].value) THEN [heap |-> [h EXCEPT ![tree].value = v], ret |-> tree]
  ELSE IF FEq(v, h[tree].value) THEN [heap |-> h, ret |-> tree]
  ELSE IF FLt(v, h[tree].value) THEN
    LET h1 == IF h[tree].left = NULL
              THEN [Alloc(h, LeftPos(tree), binary_tree_malloc(NaN, NULL, NULL))
                      EXCEPT ![tree].left = NewId(h, LeftPos(tree))]
              ELSE h
    IN [heap |-> binary_tree_insert_returns_tree(h1, h1[tree].left, v).heap, ret |-> tree]
  ELSE
    LET h1 == IF h[tree].right = NULL
              THEN [Alloc(h, RightPos(tree), binary_tree_malloc(NaN, NULL, NULL))
                      EXCEPT ![tree].right = NewId(h, RightPos(tree))]
              ELSE h
    IN [heap |-> binary_tree_insert_returns_tree(h1, h1[tree].right, v).heap, ret |-> tree]

\* binary_tree_insert, after its assertion
RECURSIVE binary_tree_insert(_, _, _)
binary_tree_insert(h, tree, v) ==
  IF isnan(h[tree].value) THEN [heap |-> [h EXCEPT ![tree].value = v], ret |-> tree]
  ELSE IF FEq(v, h[tree].value) THEN [heap |-> h, ret |-> tree]
  ELSE IF FLt(v, h[tree].value) THEN
    LET h1 == IF h[tree].left = NULL
              THEN [Alloc(h, LeftPos(tree), binary_tree_malloc(NaN, NULL, NULL))
                      EXCEPT ![tree].left = NewId(h, LeftPos(tree))]
              ELSE h
    IN binary_tree_insert(h1, h1[tree].left, v)
  ELSE
    LET h1 == IF h[tree].right = NULL
              THEN [Alloc(h, RightPos(tree), binary_tree_malloc(NaN, NULL, NULL))
                      EXCEPT ![tree].right = NewId(h, RightPos(tree))]
              ELSE h
    IN binary_tree_insert(h1, h1[tree].right, v)

\* binary_tree_sorted_values: the array it returns, of *n_values_p doubles
RECURSIVE binary_tree_sorted_values(_, _)
binary_tree_sorted_values(h, tree) ==
  IF isnan(h[tree].value) THEN <<>>
  ELSE
    LET values_left == IF h[tree].left # NULL
                       THEN binary_tree_sorted_values(h, h[tree].left) ELSE <<>>
        values_right == IF h[tree].right # NULL
                        THEN binary_tree_sorted_values(h, h[tree].right) ELSE <<>>
        n_values_left == Len(values_left)
        n_values_right == Len(values_right)
        n_values == n_values_left + n_values_right + 1
    IN [i \in 1..n_values |->
          IF i <= n_values_left THEN values_left[i]
          ELSE IF i = n_values_left + 1 THEN h[tree].value
          ELSE values_right[i - n_values_left - 1]]

-----------------------------------------------------------------------------
(* Memory of the C library.  The frees work on [heap, released, fault]:     *)
(* released lists the nodes handed to free(), in order, and fault tells how *)
(* the process died, if it did.                                             *)

Memory(h) == [heap |-> h, released |-> <<>>, fault |-> "none"]

\* free(p): nothing for NULL; freeing a node that is not live is a double free
free(st, p) ==
  IF st.fault # "none" \/ p = NULL THEN st
  ELSE IF p \notin DOMAIN st.heap THEN [st EXCEPT !.fault = "double_free"]
  ELSE [st EXCEPT !.heap = [i \in DOMAIN st.heap \ {p} |-> st.heap[i]],
                  !.released = Append(@, p)]

-----------------------------------------------------------------------------
(* C gen_tree, c/src/tree.c.  A node is [value, n_children, children]; a    *)
(* gen_tree ** is NullArray, or Array(elems) for the block that holds the   *)
(* gen_tree * of the sequence elems.                                        *)

NullArray == <<>>
Array(elems) == <<elems>>
Elems(p) == p[1]

\* assert((n_children == 0 && !children) || (n_children > 0 && children))
gen_tree_malloc_assert(n, c) ==
  (n = 0 /\ c = NullArray) \/ (n > 0 /\ c # NullArray)

gen_tree_malloc(v, n, c) == [value |-> v, n_children |-> n, children |-> c]

\* assert(tree && (children || (n_children == 0 && !children)))
gen_tree_set_children_assert(tree, n, c) ==
  tree # NULL /\ (c # NullArray \/ (n = 0 /\ c = NullArray))

gen_tree_set_children(h, tree, n, c) ==
  [h EXCEPT ![tree].n_children = n, ![tree].children = c]

\* map_func(gen_tree_malloc_default, values, children, n): the first n values
\* become n new nodes without children; node i is put at handle pos[i]
RECURSIVE map_gen_tree_malloc_default(_, _, _, _)
map_gen_tree_malloc_default(h, pos, values, n) ==
  IF n = 0 THEN [heap |-> h, elems |-> <<>>]
  ELSE LET r == map_gen_tree_malloc_default(h, pos, values, n - 1)
       IN [heap |-> Alloc(r.heap, pos[n], gen_tree_malloc(values[n], 0, NullArray)),
           elems |-> Append(r.elems, NewId(r.heap, pos[n]))]

\* values is NullArray for a NULL pointer and Array(doubles) otherwise
gen_tree_make_children(h, pos, n, values) ==
  IF values = NullArray THEN [heap |-> h, children |-> NullArray, fault |-> "assert"]
  ELSE IF n = 0 THEN [heap |-> h, children |-> NullArray, fault |-> "none"]
  ELSE LET r == map_gen_tree_malloc_default(h, pos, Elems(values), n)
       IN [heap |-> r.heap, children |-> Array(r.elems), fault |-> "none"]

RECURSIVE gen_tree_free_children_(_, _, _)
RECURSIVE gen_tree_free_children_loop(_, _, _, _)

\* a loop that frees the subtrees of the children whether deep or not
RECURSIVE gen_tree_free_children_loop_always_deep(_, _, _, _)
gen_tree_free_children_loop_always_deep(st, tree, i, deep) ==
  IF st.fault # "none" THEN st
  ELSE IF tree \notin DOMAIN st.heap THEN [st EXCEPT !.fault = "use_after_free"]
  ELSE IF ~(i < st.heap[tree].n_children) THEN st
  ELSE LET child == Elems(st.heap[tree].children)[i + 1]
           freed == gen_tree_free_children_(st, child, TRUE)
       IN gen_tree_free_children_loop_always_deep(free(freed, child), tree, i + 1, deep)

\* the iterations i, i + 1, ... of the for loop (i counts from 0)
gen_tree_free_children_loop(st, tree, i, deep) ==
  IF st.fault # "none" THEN st
  ELSE IF tree \notin DOMAIN st.heap THEN [st EXCEPT !.fault = "use_after_free"]
  ELSE IF ~(i < st.heap[tree].n_children) THEN st
  ELSE LET child == Elems(st.heap[tree].children)[i + 1]
           freed == IF deep THEN gen_tree_free_children_(st, child, TRUE) ELSE st
       IN gen_tree_free_children_loop(free(freed, child), tree, i + 1, deep)

gen_tree_free_children_(st, tree, deep) ==
  IF st.fault # "none" THEN st
  ELSE IF tree = NULL THEN [st EXCEPT !.fault = "assert"]
  ELSE IF tree \notin DOMAIN st.heap THEN [st EXCEPT !.fault = "use_after_free"]
  ELSE LET looped == IF st.heap[tree].children # NullArray
                     THEN gen_tree_free_children_loop(st, tree, 0, deep)
                     ELSE st
       IN IF looped.fault # "none" THEN looped
          ELSE IF tree \notin DOMAIN looped.heap
               THEN [looped EXCEPT !.fault = "use_after_free"]
          ELSE [looped EXCEPT !.heap[tree].n_children = 0,
                              !.heap[tree].children = NullArray]

\* a gen_tree_free_deep that forgets the node itself
gen_tree_free_deep_keeps_node(st, tree) == gen_tree_free_children_(st, tree, TRUE)

gen_tree_free_deep(st, tree) == free(gen_tree_free_children_(st, tree, TRUE), tree)

\* The structures variant, c/src/structures/tree.c.  Its gen_tree, its
\* gen_tree_malloc and its gen_tree_set_children are those of c/src/tree.c line
\* for line.  Its header declares neither gen_tree_free_children nor
\* gen_tree_free_children_deep; they are read as pdcip/tree.h defines them, the
\* only definitions the repository has, and gen_tree_free as free.
RECURSIVE structures_gen_tree_free_children_(_, _, _)
RECURSIVE structures_gen_tree_free_children_loop(_, _, _, _)

\* the iterations i, i + 1, ... of the for loop (i counts from 0)
structures_gen_tree_free_children_loop(st, tree, i, deep) ==
  IF st.fault # "none" THEN st
  ELSE IF tree \notin DOMAIN st.heap THEN [st EXCEPT !.fault = "use_after_free"]
  ELSE IF ~(i < st.heap[tree].n_children) THEN st
  ELSE LET child == Elems(st.heap[tree].children)[i + 1]
           freed == IF deep THEN structures_gen_tree_free_children_(st, child, TRUE) ELSE st
       IN structures_gen_tree_free_children_loop(free(freed, child), tree, i + 1, deep)

\* gen_tree_free_children_ of the variant: no assertion on tree
structures_gen_tree_free_children_(st, tree, deep) ==
  IF st.fault # "none" THEN st
  ELSE IF tree = NULL THEN [st EXCEPT !.fault = "undefined"]
  ELSE IF tree \notin DOMAIN st.heap THEN [st EXCEPT !.fault = "use_after_free"]
  ELSE LET looped == IF st.heap[tree].children # NullArray
                     THEN structures_gen_tree_free_children_loop(st, tree, 0, deep)
                     ELSE st
       IN IF looped.fault # "none" THEN looped
          ELSE IF tree \notin DOMAIN looped.heap
               THEN [looped EXCEPT !.fault = "use_after_free"]
          ELSE [looped EXCEPT !.heap[tree].n_children = 0,
                              !.heap[tree].children = NullArray]

\* gen_tree_free_deep of the variant: gen_tree_free_children(tree), free(tree)
structures_gen_tree_free_deep(st, tree) ==
  free(structures_gen_tree_free_children_(st, tree, FALSE), tree)

\* array_sum(name, type, ar, n_items): the sum of the first n_items of ar
RECURSIVE array_sum(_, _)
array_sum(ar, n_items) ==
  IF n_items = 0 THEN 0 ELSE array_sum(ar, n_items - 1) + ar[n_items]

\* a gen_tree_dfs that lists and counts an absent child
RECURSIVE gen_tree_dfs_lists_null(_, _)
gen_tree_dfs_lists_null(h, tree) ==
  IF tree = NULL THEN [nodes |-> Array(<<NULL>>), n_nodes |-> 1]
  ELSE IF h[tree].n_children = 0 THEN [nodes |-> Array(<<tree>>), n_nodes |-> 1]
  ELSE LET n == h[tree].n_children
           sub == [i \in 1..n |-> gen_tree_dfs_lists_null(h, Elems(h[tree].children)[i])]
           nodes_ar == [i \in 1..n |-> sub[i].nodes]
           n_nodes_ar == [i \in 1..n |-> sub[i].n_nodes]
           n_nodes == array_sum(n_nodes_ar, n) + 1
           \* n_copied when the copy of nodes_ar[i] starts
           n_copied(i) == array_sum(n_nodes_ar, i - 1)
           nodes == [k \in 1..n_nodes |->
                      IF k = n_nodes THEN tree
                      ELSE LET i == CHOOSE i \in 1..n :
                                      n_copied(i) < k /\ k <= n_copied(i) + n_nodes_ar[i]
                           IN Elems(nodes_ar[i])[k - n_copied(i)]]
       IN [nodes |-> Array(nodes), n_nodes |-> n_nodes]

\* returns the array (NullArray for NULL) and what is written to *n_nodes_p
RECURSIVE gen_tree_dfs(_, _)
gen_tree_dfs(h, tree) ==
  IF tree = NULL THEN [nodes |-> NullArray, n_nodes |-> 0]
  ELSE IF h[tree].n_children = 0 THEN [nodes |-> Array(<<tree>>), n_nodes |-> 1]
  ELSE LET n == h[tree].n_children
           sub == [i \in 1..n |-> gen_tree_dfs(h, Elems(h[tree].children)[i])]
           nodes_ar == [i \in 1..n |-> sub[i].nodes]
           n_nodes_ar == [i \in 1..n |-> sub[i].n_nodes]
           n_nodes == array_sum(n_nodes_ar, n) + 1
           \* n_copied when the copy of nodes_ar[i] starts
           n_copied(i) == array_sum(n_nodes_ar, i - 1)
           nodes == [k \in 1..n_nodes |->
                      IF k = n_nodes THEN tree
                      ELSE LET i == CHOOSE i \in 1..n :
                                      n_copied(i) < k /\ k <= n_copied(i) + n_nodes_ar[i]
                           IN Elems(nodes_ar[i])[k - n_copied(i)]]
       IN [nodes |-> Array(nodes), n_nodes |-> n_nodes]

-----------------------------------------------------------------------------
(* C binary_tree frees, c/src/tree.c *)

\* a binary_tree_free_children_ that also wipes the value of the node
RECURSIVE binary_tree_free_children_clears_value(_, _, _)
binary_tree_free_children_clears_value(st, tree, deep) ==
  IF st.fault # "none" THEN st
  ELSE IF tree = NULL THEN [st EXCEPT !.fault = "assert"]
  ELSE IF tree \notin DOMAIN st.heap THEN [st EXCEPT !.fault = "use_after_free"]
  ELSE LET l == st.heap[tree].left
           s1 == IF l # NULL
                 THEN free(IF deep THEN binary_tree_free_children_clears_value(st, l, TRUE) ELSE st, l)
                 ELSE st
       IN IF s1.fault # "none" THEN s1
          ELSE IF tree \notin DOMAIN s1.heap THEN [s1 EXCEPT !.fault = "use_after_free"]
          ELSE LET r == s1.heap[tree].right
                   s2 == IF r # NULL
                         THEN free(IF deep THEN binary_tree_free_children_clears_value(s1, r, TRUE)
                                   ELSE s1, r)
                         ELSE s1
               IN IF s2.fault # "none" THEN s2
                  ELSE IF tree \notin DOMAIN s2.heap
                       THEN [s2 EXCEPT !.fault = "use_after_free"]
                  ELSE [s2 EXCEPT !.heap[tree].left = NULL, !.heap[tree].right = NULL,
                                  !.heap[tree].value = NaN]

RECURSIVE binary_tree_free_children_(_, _, _)
binary_tree_free_children_(st, tree, deep) ==
  IF st.fault # "none" THEN st
  ELSE IF tree = NULL THEN [st EXCEPT !.fault = "assert"]
  ELSE IF tree \notin DOMAIN st.heap THEN [st EXCEPT !.fault = "use_after_free"]
  ELSE LET l == st.heap[tree].left
           s1 == IF l # NULL
                 THEN free(IF deep THEN binary_tree_free_children_(st, l, TRUE) ELSE st, l)
                 ELSE st
       IN IF s1.fault # "none" THEN s1
          ELSE IF tree \notin DOMAIN s1.heap THEN [s1 EXCEPT !.fault = "use_after_free"]
          ELSE LET r == s1.heap[tree].right
                   s2 == IF r # NULL
                         THEN free(IF deep THEN binary_tree_free_children_(s1, r, TRUE)
                                   ELSE s1, r)
                         ELSE s1
               IN IF s2.fault # "none" THEN s2
                  ELSE IF tree \notin DOMAIN s2.heap
                       THEN [s2 EXCEPT !.fault = "use_after_free"]
                  ELSE [s2 EXCEPT !.heap[tree].left = NULL, !.heap[tree].right = NULL]

binary_tree_free_deep(st, tree) == free(binary_tree_free_children_(st, tree, TRUE), tree)

-----------------------------------------------------------------------------
(* C++ tree, cpp/src/tree.cc: a node is [value_, children_] as above *)

\* tree::tree(double, const tree_ptr_vector_ptr&): assert(children)
tree(v, c) == [value_ |-> v, children_ |-> c]

\* a loop that gives every new tree the first value
RECURSIVE make_slots_first_value(_, _, _, _, _)
make_slots_first_value(h, pos, values, mask, n) ==
  IF n = 0 THEN [heap |-> h, elems |-> <<>>]
  ELSE LET r == make_slots_first_value(h, pos, values, mask, n - 1)
       IN IF mask[n]
          THEN [heap |-> Alloc(r.heap, pos[n], tree(values[1], make_shared(<<>>))),
                elems |-> Append(r.elems, NewId(r.heap, pos[n]))]
          ELSE [heap |-> r.heap, elems |-> Append(r.elems, NULL)]

\* one slot of a vector under construction: a new tree(values[i]) with the
\* default (empty) children at handle pos[i], or a null slot where ~mask[i]
RECURSIVE make_slots(_, _, _, _, _)
make_slots(h, pos, values, mask, n) ==
  IF n = 0 THEN [heap |-> h, elems |-> <<>>]
  ELSE LET r == make_slots(h, pos, values, mask, n - 1)
       IN IF mask[n]
          THEN [heap |-> Alloc(r.heap, pos[n], tree(values[n], make_shared(<<>>))),
                elems |-> Append(r.elems, NewId(r.heap, pos[n]))]
          ELSE [heap |-> r.heap, elems |-> Append(r.elems, NULL)]

make_tree_ptr_vector(h, pos, values) ==
  LET r == make_slots(h, pos, values, [i \in 1..Len(values) |-> TRUE], Len(values))
  IN [heap |-> r.heap, children |-> make_shared(r.elems)]

make_children(h, pos, values) == make_tree_ptr_vector(h, pos, values)

\* the concatenation of a sequence of vectors
RECURSIVE insert_end(_)
insert_end(nodes_vec) ==
  IF nodes_vec = <<>> THEN <<>> ELSE Head(nodes_vec) \o insert_end(Tail(nodes_vec))

\* a dfs that lists the root first
RECURSIVE dfs_root_first(_, _)
dfs_root_first(h, root) ==
  IF children(h, root) = nullptr THEN <<root>>
  ELSE LET vec == children(h, root)[1]
           kept == SelectSeq(vec, LAMBDA child : child # NULL)
       IN <<root>> \o insert_end([i \in 1..Len(kept) |-> dfs_root_first(h, kept[i])])

RECURSIVE dfs(_, _)
dfs(h, root) ==
  IF children(h, root) = nullptr THEN <<root>>
  ELSE LET vec == children(h, root)[1]
           kept == SelectSeq(vec, LAMBDA child : child # NULL)
           nodes_vec == [i \in 1..Len(kept) |-> dfs(h, kept[i])]
       IN Append(insert_end(nodes_vec), root)

\* the while loop of tree::bfs; *(cur_node->children()) of a null children_
\* is undefined
RECURSIVE bfs_loop(_, _, _)
bfs_loop(h, node_queue, nodes) ==
  IF Len(node_queue) = 0 THEN [nodes |-> nodes, fault |-> "none"]
  ELSE LET cur_node == Head(node_queue)
       IN IF children(h, cur_node) = nullptr
          THEN [nodes |-> nodes, fault |-> "undefined"]
          ELSE bfs_loop(h,
                        Tail(node_queue)
                          \o SelectSeq(children(h, cur_node)[1], LAMBDA child : child # NULL),
                        Append(nodes, cur_node))

bfs(h, root) == bfs_loop(h, <<root>>, <<>>)

-----------------------------------------------------------------------------
(* Shape of a heap of trees, for any of the libraries *)

IsCpp == lib = "cpp_binary_tree"
IsC == lib = "c_binary_tree"
IsGen == lib \in {"c_gen_tree", "c_structures_gen_tree"}
IsStructures == lib = "c_structures_gen_tree"
IsTree == lib = "cpp_tree"

Left(h, n) == IF IsCpp THEN left(h, n) ELSE h[n].left
Right(h, n) == IF IsCpp THEN right(h, n) ELSE h[n].right
ValueOf(h, n) == IF IsCpp THEN value(h, n) ELSE h[n].value
Kids(h, n) ==
  IF IsGen THEN IF h[n].children = NullArray THEN {}
                ELSE {Elems(h[n].children)[i] : i \in 1..Len(Elems(h[n].children))} \ {NULL}
  ELSE IF IsTree THEN IF h[n].children_ = nullptr THEN {}
                      ELSE {h[n].children_[1][i] : i \in 1..Len(h[n].children_[1])} \ {NULL}
  ELSE {Left(h, n), Right(h, n)} \ {NULL}

RECURSIVE Subtree(_, _)
Subtree(h, n) ==
  {n} \cup UNION {Subtree(h, k) : k \in Kids(h, n)}

Values(h, n) == {ValueOf(h, m) : m \in Subtree(h, n)} \ {NaN}

\* The client holds the handle of node 1 only: a C++ node that no shared_ptr
\* reaches any more is destroyed, and a C node that no pointer reaches any
\* more is lost to the program.
Collect(h) == [n \in (IF 1 \in DOMAIN h THEN Subtree(h, 1) ELSE {}) |-> h[n]]

-----------------------------------------------------------------------------
(* Calls on binary trees *)

Running == fault = "none"
\* the builder's calls that relink or overwrite nodes are counted
Edit ==
  IF client = "builder"
  THEN edits < MaxEdits /\ edits' = edits + 1 /\ pure' = FALSE /\ inserted' = {}
  ELSE UNCHANGED <<edits, pure, inserted>>

\* n->set_left(nullptr), or n->set_left(std::make_shared<binary_tree>(c))
BtSetLeft(n, c) ==
  /\ Running /\ IsCpp /\ Edit
  /\ n \in DOMAIN heap
  /\ LET x == IF c = NULL THEN NULL ELSE NewId(heap, LeftPos(n))
         made == IF c = NULL THEN heap ELSE Alloc(heap, LeftPos(n), binary_tree(c, NULL, NULL))
     IN /\ heap' = Collect(set_left(made, n, x))
        /\ op' = Call("set_left", n, c, x, FALSE)
  /\ Fits(heap')
  /\ ret' = NULL
  /\ UNCHANGED <<frame, client, lib, fault>>

\* n->set_right(nullptr), or n->set_right(std::make_shared<binary_tree>(c))
BtSetRight(n, c) ==
  /\ Running /\ IsCpp /\ Edit
  /\ n \in DOMAIN heap
  /\ LET x == IF c = NULL THEN NULL ELSE NewId(heap, RightPos(n))
         made == IF c = NULL THEN heap ELSE Alloc(heap, RightPos(n), binary_tree(c, NULL, NULL))
     IN /\ heap' = Collect(set_right(made, n, x))
        /\ op' = Call("set_right", n, c, x, FALSE)
  /\ Fits(heap')
  /\ ret' = NULL
  /\ UNCHANGED <<frame, client, lib, fault>>

\* n->set_value(v), which binary_tree inherits from tree
BtSetValue(n, v) ==
  /\ Running /\ IsCpp /\ Edit
  /\ n \in DOMAIN heap
  /\ heap' = set_value(heap, n, v)
  /\ op' = Call("set_value", n, v, NULL, FALSE)
  /\ ret' = NULL
  /\ UNCHANGED <<frame, client, lib, fault>>

\* n->left = binary_tree_malloc_default(v) on a node without a left child, the
\* way the C tests attach children
CAssignLeft(n, v) ==
  /\ Running /\ IsC /\ Edit
  /\ n \in DOMAIN heap /\ heap[n].left = NULL
  /\ heap' = [Alloc(heap, LeftPos(n), binary_tree_malloc(v, NULL, NULL))
                EXCEPT ![n].left = NewId(heap, LeftPos(n))]
  /\ Fits(heap')
  /\ op' = Call("assign_left", n, v, NewId(heap, LeftPos(n)), FALSE)
  /\ ret' = NULL
  /\ UNCHANGED <<frame, client, lib, fault>>

\* n->right = binary_tree_malloc_default(v) on a node without a right child
CAssignRight(n, v) ==
  /\ Running /\ IsC /\ Edit
  /\ n \in DOMAIN heap /\ heap[n].right = NULL
  /\ heap' = [Alloc(heap, RightPos(n), binary_tree_malloc(v, NULL, NULL))
                EXCEPT ![n].right = NewId(heap, RightPos(n))]
  /\ Fits(heap')
  /\ op' = Call("assign_right", n, v, NewId(heap, RightPos(n)), FALSE)
  /\ ret' = NULL
  /\ UNCHANGED <<frame, client, lib, fault>>

\* n->insert(v): binary_tree::insert has no assertion
CppInsert(n, v) ==
  /\ Running /\ IsCpp
  /\ n \in DOMAIN heap
  /\ LET r == insert(heap, n, v) IN heap' = r.heap /\ ret' = r.ret
  /\ Fits(heap')
  /\ op' = Call("insert", n, v, NULL, v \in Values(heap, 1))
  /\ pure' = (pure /\ n = 1 /\ ~isnan(v))
  /\ inserted' = IF pure' THEN inserted \cup {v} ELSE {}
  /\ UNCHANGED <<frame, client, lib, fault, edits>>

\* binary_tree_insert(n, v): assert(tree && !isnan(value)) aborts the process
CInsert(n, v) ==
  /\ Running /\ IsC
  /\ n \in DOMAIN heap
  /\ op' = Call("insert", n, v, NULL, v \in Values(heap, 1))
  /\ IF isnan(v)
     THEN /\ fault' = "assert"
          /\ ret' = NULL
          /\ UNCHANGED <<heap, pure, inserted>>
     ELSE /\ LET r == binary_tree_insert(heap, n, v) IN heap' = r.heap /\ ret' = r.ret
          /\ Fits(heap')
          /\ pure' = (pure /\ n = 1)
          /\ inserted' = IF pure' THEN inserted \cup {v} ELSE {}
          /\ UNCHANGED fault
  /\ UNCHANGED <<frame, client, lib, edits>>

\* n->sorted_values() / binary_tree_sorted_values(n, &n_values)
BtSortedValues(n) ==
  /\ Running
  /\ n \in DOMAIN heap
  /\ ret' = IF IsCpp THEN sorted_values(heap, n) ELSE binary_tree_sorted_values(heap, n)
  /\ op' = Call("sorted_values", n, NaN, NULL, FALSE)
  /\ UNCHANGED <<frame, client, lib, heap, fault, pure, inserted, edits>>

\* a run starts with one empty binary tree: binary_tree() / binary_tree_malloc_empty()
InitTree1 ==
  /\ lib \in {"c_binary_tree", "cpp_binary_tree"}
  /\ heap = (1 :> IF lib = "cpp_binary_tree"
                  THEN binary_tree(NaN, NULL, NULL)
                  ELSE binary_tree_malloc(NaN, NULL, NULL))
  /\ fault = "none"
  /\ op = NoOp
  /\ ret = NULL
  /\ pure = TRUE
  /\ inserted = {}
  /\ edits = 0
  /\ frame = NoFrame

\* the inserter: a client that only inserts and reads back
InitBT == client = "inserter" /\ InitTree1

NextBT ==
  \/ \E n \in DOMAIN heap, v \in Doubles : CppInsert(n, v)
  \/ \E n \in DOMAIN heap, v \in Doubles : CInsert(n, v)
  \/ \E n \in DOMAIN heap : BtSortedValues(n)

SpecBT == InitBT /\ [][NextBT]_vars

\* the builder: a client that also constructs and relinks nodes itself
InitBuild == client = "builder" /\ InitTree1

NextBuild ==
  \/ \E n \in DOMAIN heap, c \in Doubles \cup {NULL} : BtSetLeft(n, c)
  \/ \E n \in DOMAIN heap, c \in Doubles \cup {NULL} : BtSetRight(n, c)
  \/ \E n \in DOMAIN heap, v \in Doubles : BtSetValue(n, v)
  \/ \E n \in DOMAIN heap, v \in Doubles : CAssignLeft(n, v)
  \/ \E n \in DOMAIN heap, v \in Doubles : CAssignRight(n, v)
  \/ \E n \in DOMAIN heap, v \in Doubles : CppInsert(n, v)
  \/ \E n \in DOMAIN heap, v \in Doubles : CInsert(n, v)
  \/ \E n \in DOMAIN heap : BtSortedValues(n)

SpecBuild == InitBuild /\ [][NextBuild]_vars

-----------------------------------------------------------------------------
(* Calls on general trees, and the frees of the C trees *)

\* the values the clients give to new children, as the tests' fixtures do
DirectValues == [i \in 1..MaxFan |-> i]
\* the handles for the children of n
ChildPos(n) == [i \in 1..MaxFan |-> MaxFan * (n - 1) + i + 1]
\* the vectors a C++ client builds: up to MaxFan new trees as make_children
\* lines them up, or the two slots of a binary_tree, either of them null
Masks == {[i \in 1..k |-> TRUE] : k \in 0..MaxFan} \cup [1..2 -> BOOLEAN]

\* The previous children of a node are not released by a set_children: in C
\* they leak, in C++ they are destroyed, and the model forgets them either
\* way before the new children are made.
Orphaned(h, n) ==
  Collect(IF IsGen THEN gen_tree_set_children(h, n, 0, NullArray)
          ELSE set_children(h, n, nullptr))

\* the children a C client passes with the count k: NULL, or a block of k
\* new nodes from gen_tree_make_children (an empty block when k is 0)
GenChildren(h, n, k, nonnull) ==
  IF ~nonnull THEN [heap |-> h, children |-> NullArray]
  ELSE IF k = 0 THEN [heap |-> h, children |-> Array(<<>>)]
  ELSE gen_tree_make_children(h, ChildPos(n), k, Array(DirectValues))

\* root = gen_tree_malloc(v, k, children), once the previous tree is gone
GenMalloc(v, k, nonnull) ==
  /\ Running /\ IsGen
  /\ DOMAIN heap = {}
  /\ LET made == GenChildren(heap, 1, k, nonnull)
     IN IF gen_tree_malloc_assert(k, made.children)
        THEN /\ heap' = Alloc(made.heap, 1, gen_tree_malloc(v, k, made.children))
             /\ ret' = 1
             /\ UNCHANGED fault
        ELSE /\ fault' = "assert"
             /\ ret' = NULL
             /\ UNCHANGED heap
  /\ Fits(heap')
  /\ op' = Call("malloc", NULL, v, NULL, nonnull)
  /\ UNCHANGED <<frame, client, lib, pure, inserted, edits>>

\* gen_tree_set_children(n, k, children)
GenSetChildren(n, k, nonnull) ==
  /\ Running /\ IsGen
  /\ n \in DOMAIN heap
  /\ LET made == GenChildren(Orphaned(heap, n), n, k, nonnull)
     IN IF gen_tree_set_children_assert(n, k, made.children)
        THEN /\ heap' = gen_tree_set_children(made.heap, n, k, made.children)
             /\ UNCHANGED fault
        ELSE /\ fault' = "assert"
             /\ UNCHANGED heap
  /\ Fits(heap')
  /\ op' = Call("set_children", n, k, NULL, nonnull)
  /\ ret' = NULL
  /\ UNCHANGED <<frame, client, lib, pure, inserted, edits>>

\* gen_tree_free_children(n) / gen_tree_free_children_deep(n); ret is the
\* list of the nodes the call released
GenFreeChildren(n, deep) ==
  /\ Running /\ IsGen
  /\ n \in DOMAIN heap
  /\ LET st == gen_tree_free_children_(Memory(heap), n, deep)
     IN heap' = Collect(st.heap) /\ ret' = st.released /\ fault' = st.fault
  /\ op' = Call("free_children", n, NaN, NULL, deep)
  /\ UNCHANGED <<frame, client, lib, pure, inserted, edits>>

\* gen_tree_free_deep(root)
GenFreeDeep(n) ==
  /\ Running /\ IsGen
  /\ n \in DOMAIN heap /\ n = 1
  /\ LET st == gen_tree_free_deep(Memory(heap), n)
     IN heap' = Collect(st.heap) /\ ret' = st.released /\ fault' = st.fault
  /\ op' = Call("free_deep", n, NaN, NULL, TRUE)
  /\ UNCHANGED <<frame, client, lib, pure, inserted, edits>>

\* gen_tree_dfs(n, &n_nodes), n possibly NULL; op.value is n_nodes afterwards
GenDfs(n) ==
  /\ Running /\ IsGen
  /\ n \in DOMAIN heap \cup {NULL}
  /\ LET r == gen_tree_dfs(heap, n)
     IN /\ ret' = IF r.nodes = NullArray THEN <<>> ELSE Elems(r.nodes)
        /\ op' = Call("dfs", n, r.n_nodes, NULL, r.nodes # NullArray)
  /\ UNCHANGED <<frame, client, lib, heap, fault, pure, inserted, edits>>

\* root = binary_tree_malloc_default(v), once the previous tree is gone
BtMalloc(v) ==
  /\ Running /\ IsC
  /\ DOMAIN heap = {}
  /\ heap' = Alloc(heap, 1, binary_tree_malloc(v, NULL, NULL))
  /\ op' = Call("malloc", NULL, v, NULL, FALSE)
  /\ ret' = 1
  /\ UNCHANGED <<frame, client, lib, fault, pure, inserted, edits>>

\* binary_tree_free_children(n) / binary_tree_free_children_deep(n)
BtFreeChildren(n, deep) ==
  /\ Running /\ IsC
  /\ n \in DOMAIN heap
  /\ LET st == binary_tree_free_children_(Memory(heap), n, deep)
     IN heap' = Collect(st.heap) /\ ret' = st.released /\ fault' = st.fault
  /\ op' = Call("free_children", n, NaN, NULL, deep)
  /\ UNCHANGED <<frame, client, lib, pure, inserted, edits>>

\* binary_tree_free_deep(root)
BtFreeDeep(n) ==
  /\ Running /\ IsC
  /\ n \in DOMAIN heap /\ n = 1
  /\ LET st == binary_tree_free_deep(Memory(heap), n)
     IN heap' = Collect(st.heap) /\ ret' = st.released /\ fault' = st.fault
  /\ op' = Call("free_deep", n, NaN, NULL, TRUE)
  /\ UNCHANGED <<frame, client, lib, pure, inserted, edits>>

\* n->set_children(nullptr), or n->set_children(vec) for a vector of new
\* trees and null slots
TreeSetChildren(n, isnull, mask) ==
  /\ Running /\ IsTree
  /\ n \in DOMAIN heap
  /\ (isnull => mask = <<>>)
  /\ LET base == Orphaned(heap, n)
         made == make_slots(base, ChildPos(n), DirectValues, mask, Len(mask))
     IN heap' = IF isnull THEN base
                ELSE set_children(made.heap, n, make_shared(made.elems))
  /\ Fits(heap')
  /\ op' = Call("set_children", n, NaN, NULL, ~isnull)
  /\ ret' = NULL
  /\ UNCHANGED <<frame, client, lib, fault, pure, inserted, edits>>

\* tree::dfs(n)
TreeDfs(n) ==
  /\ Running /\ (IsTree \/ IsCpp)
  /\ n \in DOMAIN heap
  /\ ret' = dfs(heap, n)
  /\ op' = Call("dfs", n, Len(ret'), NULL, TRUE)
  /\ UNCHANGED <<frame, client, lib, heap, fault, pure, inserted, edits>>

\* tree::bfs(n); where the behaviour is undefined the call may have listed
\* any part of what it had listed so far
TreeBfs(n) ==
  /\ Running /\ (IsTree \/ IsCpp)
  /\ n \in DOMAIN heap
  /\ LET r == bfs(heap, n)
     IN /\ fault' = r.fault
        /\ ret' \in IF r.fault = "none" THEN {r.nodes}
                    ELSE {SubSeq(r.nodes, 1, k) : k \in 0..Len(r.nodes)}
  /\ op' = Call("bfs", n, NaN, NULL, FALSE)
  /\ UNCHANGED <<frame, client, lib, heap, pure, inserted, edits>>

\* the grower: a client that builds general trees, walks them and frees them
InitGrow ==
  /\ client = "grower"
  /\ lib \in {"c_gen_tree", "c_binary_tree", "cpp_tree"}
  /\ heap = (1 :> IF lib = "c_gen_tree" THEN gen_tree_malloc(1, 0, NullArray)
                  ELSE IF lib = "cpp_tree" THEN tree(1, make_shared(<<>>))
                  ELSE binary_tree_malloc(1, NULL, NULL))
  /\ fault = "none"
  /\ op = NoOp
  /\ ret = NULL
  /\ pure = FALSE
  /\ inserted = {}
  /\ edits = 0
  /\ frame = NoFrame

NextGrow ==
  \/ \E v \in Finite, k \in 0..MaxFan, nonnull \in BOOLEAN : GenMalloc(v, k, nonnull)
  \/ \E n \in DOMAIN heap, k \in 0..MaxFan, nonnull \in BOOLEAN : GenSetChildren(n, k, nonnull)
  \/ \E n \in DOMAIN heap, deep \in BOOLEAN : GenFreeChildren(n, deep)
  \/ \E n \in DOMAIN heap : GenFreeDeep(n)
  \/ \E n \in DOMAIN heap \cup {NULL} : GenDfs(n)
  \/ \E v \in Finite : BtMalloc(v)
  \/ \E n \in DOMAIN heap, v \in Finite : CAssignLeft(n, v)
  \/ \E n \in DOMAIN heap, v \in Finite : CAssignRight(n, v)
  \/ \E n \in DOMAIN heap, deep \in BOOLEAN : BtFreeChildren(n, deep)
  \/ \E n \in DOMAIN heap : BtFreeDeep(n)
  \/ \E n \in DOMAIN heap, isnull \in BOOLEAN, mask \in Masks : TreeSetChildren(n, isnull, mask)
  \/ \E n \in DOMAIN heap : TreeDfs(n)
  \/ \E n \in DOMAIN heap : TreeBfs(n)

SpecGrow == InitGrow /\ [][NextGrow]_vars

\* one slot of an array a C client fills by hand: a new node without children
\* at handle pos[i], or NULL where ~mask[i]
RECURSIVE fill_slots(_, _, _, _, _)
fill_slots(h, pos, values, mask, n) ==
  IF n = 0 THEN [heap |-> h, elems |-> <<>>]
  ELSE LET r == fill_slots(h, pos, values, mask, n - 1)
       IN IF mask[n]
          THEN [heap |-> Alloc(r.heap, pos[n], gen_tree_malloc(values[n], 0, NullArray)),
                elems |-> Append(r.elems, NewId(r.heap, pos[n]))]
          ELSE [heap |-> r.heap, elems |-> Append(r.elems, NULL)]

\* gen_tree_set_children(n, k, children) with an array of k slots that the
\* client filled itself, some of them with NULL, or with NULL for k = 0
GenSetSparse(n, mask) ==
  /\ Running /\ IsGen
  /\ n \in DOMAIN heap
  /\ LET made == fill_slots(Orphaned(heap, n), ChildPos(n), DirectValues, mask, Len(mask))
         c == IF Len(mask) = 0 THEN NullArray ELSE Array(made.elems)
     IN IF gen_tree_set_children_assert(n, Len(mask), c)
        THEN /\ heap' = gen_tree_set_children(made.heap, n, Len(mask), c)
             /\ UNCHANGED fault
        ELSE /\ fault' = "assert"
             /\ UNCHANGED heap
  /\ Fits(heap')
  /\ op' = Call("set_children", n, Len(mask), NULL, Len(mask) # 0)
  /\ ret' = NULL
  /\ UNCHANGED <<frame, client, lib, pure, inserted, edits>>

\* the walker: a client that builds trees with absent child slots, general
\* and binary ones, and walks them
InitWalk ==
  /\ client = "walker"
  /\ lib \in {"c_gen_tree", "cpp_tree", "cpp_binary_tree"}
  /\ heap = (1 :> IF lib = "c_gen_tree" THEN gen_tree_malloc(1, 0, NullArray)
                  ELSE IF lib = "cpp_tree" THEN tree(1, make_shared(<<>>))
                  ELSE binary_tree(NaN, NULL, NULL))
  /\ fault = "none"
  /\ op = NoOp
  /\ ret = NULL
  /\ pure = FALSE
  /\ inserted = {}
  /\ edits = 0
  /\ frame = NoFrame

NextWalk ==
  \/ \E n \in DOMAIN heap, mask \in Masks : GenSetSparse(n, mask)
  \/ \E n \in DOMAIN heap \cup {NULL} : GenDfs(n)
  \/ \E n \in DOMAIN heap, isnull \in BOOLEAN, mask \in Masks : TreeSetChildren(n, isnull, mask)
  \/ \E n \in DOMAIN heap, c \in Finite \cup {NULL} : BtSetLeft(n, c)
  \/ \E n \in DOMAIN heap, c \in Finite \cup {NULL} : BtSetRight(n, c)
  \/ \E n \in DOMAIN heap : TreeDfs(n)
  \/ \E n \in DOMAIN heap : TreeBfs(n)

SpecWalk == InitWalk /\ [][NextWalk]_vars

\* the arrays of doubles a client passes to make_children
ValueArrays == [1..MaxFan -> Doubles]
ValueVectors == UNION {[1..k -> Doubles] : k \in 0..MaxFan}

\* a client that has made children passes them to set_children next
Pending == op.name = "make_children"

\* children = gen_tree_make_children(k, values), meant for node n; values is
\* NULL or an array of MaxFan doubles; ret is the pointer returned
GenMakeChildren(n, k, values) ==
  /\ Running /\ IsGen /\ ~Pending
  /\ n \in DOMAIN heap
  /\ LET r == gen_tree_make_children(heap, ChildPos(n), k, values)
     IN heap' = r.heap /\ ret' = r.children /\ fault' = r.fault
  /\ Fits(heap')
  /\ op' = Call("make_children", n, k, values, values # NullArray)
  /\ UNCHANGED <<frame, client, lib, pure, inserted, edits>>

\* gen_tree_set_children(n, k, children) with the children just made
GenAdopt(n) ==
  /\ Running /\ IsGen /\ Pending
  /\ n = op.node
  /\ IF gen_tree_set_children_assert(n, op.value, ret)
     THEN /\ heap' = Collect(gen_tree_set_children(heap, n, op.value, ret))
          /\ UNCHANGED fault
     ELSE /\ fault' = "assert"
          /\ UNCHANGED heap
  /\ op' = Call("set_children", n, op.value, NULL, ret # NullArray)
  /\ ret' = NULL
  /\ UNCHANGED <<frame, client, lib, pure, inserted, edits>>

\* children = tree::make_children(values), meant for node n
TreeMakeChildren(n, values) ==
  /\ Running /\ IsTree /\ ~Pending
  /\ n \in DOMAIN heap
  /\ LET r == make_children(heap, ChildPos(n), values)
     IN heap' = r.heap /\ ret' = r.children
  /\ Fits(heap')
  /\ op' = Call("make_children", n, Len(values), Array(values), TRUE)
  /\ UNCHANGED <<frame, client, lib, fault, pure, inserted, edits>>

\* n->set_children(children) with the children just made
TreeAdopt(n) ==
  /\ Running /\ IsTree /\ Pending
  /\ n = op.node
  /\ heap' = Collect(set_children(heap, n, ret))
  /\ op' = Call("set_children", n, NaN, NULL, TRUE)
  /\ ret' = NULL
  /\ UNCHANGED <<frame, client, lib, fault, pure, inserted, edits>>

\* the maker: a client that makes children from values and hands them to a node
InitMake ==
  /\ client = "maker"
  /\ lib \in {"c_gen_tree", "cpp_tree"}
  /\ heap = (1 :> IF lib = "c_gen_tree" THEN gen_tree_malloc(1, 0, NullArray)
                  ELSE tree(1, make_shared(<<>>)))
  /\ fault = "none"
  /\ op = NoOp
  /\ ret = NULL
  /\ pure = FALSE
  /\ inserted = {}
  /\ edits = 0
  /\ frame = NoFrame

NextMake ==
  \/ \E n \in DOMAIN heap, k \in 0..MaxFan, values \in {Array(a) : a \in ValueArrays} \cup {NullArray} :
       GenMakeChildren(n, k, values)
  \/ \E n \in DOMAIN heap : GenAdopt(n)
  \/ \E n \in DOMAIN heap, values \in ValueVectors : TreeMakeChildren(n, values)
  \/ \E n \in DOMAIN heap : TreeAdopt(n)

SpecMake == InitMake /\ [][NextMake]_vars

-----------------------------------------------------------------------------
(* The releaser: the grower's gen_tree calls on the structures variant *)

\* gen_tree_free_children_(n, deep) of the variant; ret is the list of the
\* nodes the call released
StructFreeChildren(n, deep) ==
  /\ Running /\ IsStructures
  /\ n \in DOMAIN heap
  /\ LET st == structures_gen_tree_free_children_(Memory(heap), n, deep)
     IN heap' = Collect(st.heap) /\ ret' = st.released /\ fault' = st.fault
  /\ op' = Call("structures_free_children", n, NaN, NULL, deep)
  /\ UNCHANGED <<frame, client, lib, pure, inserted, edits>>

\* gen_tree_free_deep(root) of the variant; the nodes it leaves allocated are
\* out of the program's reach afterwards
StructFreeDeep(n) ==
  /\ Running /\ IsStructures
  /\ n \in DOMAIN heap /\ n = 1
  /\ LET st == structures_gen_tree_free_deep(Memory(heap), n)
     IN heap' = Collect(st.heap) /\ ret' = st.released /\ fault' = st.fault
  /\ op' = Call("structures_free_deep", n, NaN, NULL, TRUE)
  /\ UNCHANGED <<frame, client, lib, pure, inserted, edits>>

InitStruct ==
  /\ client = "grower"
  /\ lib = "c_structures_gen_tree"
  /\ heap = (1 :> gen_tree_malloc(1, 0, NullArray))
  /\ fault = "none"
  /\ op = NoOp
  /\ ret = NULL
  /\ pure = FALSE
  /\ inserted = {}
  /\ edits = 0
  /\ frame = NoFrame

NextStruct ==
  \/ \E v \in Finite, k \in 0..MaxFan, nonnull \in BOOLEAN : GenMalloc(v, k, nonnull)
  \/ \E n \in DOMAIN heap, k \in 0..MaxFan, nonnull \in BOOLEAN : GenSetChildren(n, k, nonnull)
  \/ \E n \in DOMAIN heap, deep \in BOOLEAN : StructFreeChildren(n, deep)
  \/ \E n \in DOMAIN heap : StructFreeDeep(n)

SpecStruct == InitStruct /\ [][NextStruct]_vars

-----------------------------------------------------------------------------
(* C linked lists, c/src/link.c and c/include/pdcip/link.h.  A single_link  *)
(* is [value, next], a double_link is [value, prev, next].  The counting    *)
(* functions run one step of their loop at a time.                          *)

IsSingle == lib = "c_single_link"
IsDouble == lib = "c_double_link"

\* size_t arithmetic wraps at SIZE_MAX + 1
SIZE_MAX == 2 ^ SizeBits - 1

single_link_malloc(v, next) == [value |-> v, next |-> next]
double_link_malloc(v, prev, next) == [value |-> v, prev |-> prev, next |-> next]

\* the head of the client's list is the link it allocated last
ListHead(h) == CHOOSE n \in DOMAIN h : \A m \in DOMAIN h : m <= n

\* the counting functions of each list, and the pointer each one follows:
\* count_n_next and count_n_prev are count_n_p with p = next and p = prev
CountFns ==
  IF IsSingle THEN {"single_link_n_next", "single_link_n_links"}
  ELSE {"double_link_n_prev", "double_link_n_next"}
FollowedBy(fn) == IF fn = "double_link_n_prev" THEN "prev" ELSE "next"

Idle == frame.pc = "idle"

\* head = single_link_malloc(v, head): a new link in front of the list
SingleLinkMalloc(v) ==
  /\ Running /\ IsSingle /\ Idle
  /\ ListHead(heap) < MaxLinks
  /\ heap' = (ListHead(heap) + 1 :> single_link_malloc(v, ListHead(heap))) @@ heap
  /\ op' = Call("single_link_malloc", ListHead(heap), v, NULL, FALSE)
  /\ ret' = ListHead(heap) + 1
  /\ UNCHANGED <<frame, client, lib, fault, pure, inserted, edits>>

\* head->prev = double_link_malloc(v, NULL, head); head = head->prev
DoubleLinkMalloc(v) ==
  /\ Running /\ IsDouble /\ Idle
  /\ ListHead(heap) < MaxLinks
  /\ heap' = (ListHead(heap) + 1 :> double_link_malloc(v, NULL, ListHead(heap)))
               @@ [heap EXCEPT ![ListHead(heap)].prev = ListHead(heap) + 1]
  /\ op' = Call("double_link_malloc", ListHead(heap), v, NULL, FALSE)
  /\ ret' = ListHead(heap) + 1
  /\ UNCHANGED <<frame, client, lib, fault, pure, inserted, edits>>

\* fn(h) is called: count_n_p declares cur = h->p and n_p = 0
CountCall(fn, h) ==
  /\ Running /\ (IsSingle \/ IsDouble) /\ Idle
  /\ fn \in CountFns /\ h \in DOMAIN heap
  /\ frame' = [pc |-> "while", fn |-> fn, p |-> FollowedBy(fn), h |-> h,
               cur |-> heap[h][FollowedBy(fn)], n_p |-> 0]
  /\ op' = Call(fn, h, NaN, NULL, FALSE)
  /\ ret' = NULL
  /\ UNCHANGED <<client, lib, heap, fault, pure, inserted, edits>>

\* while (cur) { (n_p)++; }: one iteration; the body does not advance cur
CountIterate ==
  /\ Running /\ frame.pc = "while"
  /\ frame.cur # NULL
  /\ frame' = [frame EXCEPT !.n_p = (@ + 1) % (SIZE_MAX + 1)]
  /\ UNCHANGED <<client, lib, heap, fault, op, ret, pure, inserted, edits>>

\* the loop is left with cur == NULL; return n_p, or 1 + n_p from
\* single_link_n_links.  op.had tells that the call has returned.
CountReturn ==
  /\ Running /\ frame.pc = "while"
  /\ frame.cur = NULL
  /\ ret' = IF frame.fn = "single_link_n_links"
            THEN (1 + frame.n_p) % (SIZE_MAX + 1) ELSE frame.n_p
  /\ op' = [op EXCEPT !.had = TRUE]
  /\ frame' = NoFrame
  /\ UNCHANGED <<client, lib, heap, fault, pure, inserted, edits>>

InitLink ==
  /\ client = "counter"
  /\ lib \in {"c_single_link", "c_double_link"}
  /\ heap = (1 :> IF lib = "c_single_link" THEN single_link_malloc(1, NULL)
                  ELSE double_link_malloc(1, NULL, NULL))
  /\ fault = "none"
  /\ op = NoOp
  /\ ret = NULL
  /\ pure = FALSE
  /\ inserted = {}
  /\ edits = 0
  /\ frame = NoFrame

NextLink ==
  \/ \E v \in Doubles : SingleLinkMalloc(v)
  \/ \E v \in Doubles : DoubleLinkMalloc(v)
  \/ \E fn \in CountFns, h \in DOMAIN heap : CountCall(fn, h)
  \/ CountIterate
  \/ CountReturn

SpecLink == InitLink /\ [][NextLink]_vars

\* a call that has started takes its next step
SpecLinkFair == SpecLink /\ WF_vars(CountIterate) /\ WF_vars(CountReturn)

\* free_p_links(t, h, p): cur = h->p, then the iterations of
\* while (cur) { p = cur->p; t_free(cur); cur = p; }; h->p is not assigned
RECURSIVE free_p_links_loop(_, _, _)
free_p_links_loop(st, cur, p) ==
  IF st.fault # "none" \/ cur = NULL THEN st
  ELSE IF cur \notin DOMAIN st.heap THEN [st EXCEPT !.fault = "use_after_free"]
  ELSE free_p_links_loop(free(st, cur), st.heap[cur][p], p)

free_p_links(st, h, p) ==
  IF h \notin DOMAIN st.heap THEN [st EXCEPT !.fault = "use_after_free"]
  ELSE free_p_links_loop(st, st.heap[h][p], p)

\* the freeing functions of each list, and the pointer each one follows:
\* free_next_links and free_prev_links are free_p_links with p = next and prev
FreeFns ==
  IF IsSingle THEN {"single_link_free_next_links"}
  ELSE {"double_link_free_prev_links", "double_link_free_next_links"}
FreedAlong(fn) == IF fn = "double_link_free_prev_links" THEN "prev" ELSE "next"

\* fn(h); ret is the list of the links the call released
FreeLinks(fn, h) ==
  /\ Running /\ (IsSingle \/ IsDouble) /\ Idle
  /\ fn \in FreeFns /\ h \in DOMAIN heap
  /\ LET st == free_p_links(Memory(heap), h, FreedAlong(fn))
     IN heap' = st.heap /\ ret' = st.released /\ fault' = st.fault
  /\ op' = Call(fn, h, NaN, NULL, FALSE)
  /\ UNCHANGED <<frame, client, lib, pure, inserted, edits>>

InitUnlink ==
  /\ client = "unlinker"
  /\ lib \in {"c_single_link", "c_double_link"}
  /\ heap = (1 :> IF lib = "c_single_link" THEN single_link_malloc(1, NULL)
                  ELSE double_link_malloc(1, NULL, NULL))
  /\ fault = "none"
  /\ op = NoOp
  /\ ret = NULL
  /\ pure = FALSE
  /\ inserted = {}
  /\ edits = 0
  /\ frame = NoFrame

NextUnlink ==
  \/ \E v \in Doubles : SingleLinkMalloc(v)
  \/ \E v \in Doubles : DoubleLinkMalloc(v)
  \/ \E fn \in FreeFns, h \in DOMAIN heap : FreeLinks(fn, h)

SpecUnlink == InitUnlink /\ [][NextUnlink]_vars

-----------------------------------------------------------------------------
(* C++ linked lists, cpp/src/link.cc and cpp/include/pdcip/cpp/link.h.  A   *)
(* single_link is [value_, next_], a double_link is [value_, prev_, next_]. *)
(* A call returns [heap, ret, fault].                                       *)

IsSingleLink == lib = "cpp_single_link"
IsDoubleLink == lib = "cpp_double_link"
link_t == IF IsSingleLink THEN "single_link" ELSE "double_link"

\* single_link(value, next), double_link(value, prev, next)
single_link(v, next) == [value_ |-> v, next_ |-> next]
double_link(v, prev, next) == [value_ |-> v, prev_ |-> prev, next_ |-> next]

\* T_next_t::set_next, T_prev_t::set_prev
set_next(h, this, next) == [h EXCEPT ![this].next_ = next]
set_prev(h, this, prev) == [h EXCEPT ![this].prev_ = prev]

\* std::make_shared<link_t>(value): the new link and the heap that holds it
NewLink(h) == Cardinality(DOMAIN h) + 1
make_shared_link(h, t, v) ==
  (NewLink(h) :> IF t = "single_link" THEN single_link(v, NULL)
                 ELSE double_link(v, NULL, NULL)) @@ h

\* single_link::insert_next(head, value)
single_link_insert_next(h, head, v) ==
  IF isnan(v) THEN [heap |-> h, ret |-> NULL, fault |-> "assert"]
  ELSE LET new_link == NewLink(h)
           made == make_shared_link(h, "single_link", v)
           linked == IF made[head].next_ # NULL
                     THEN set_next(made, new_link, made[head].next_)
                     ELSE made
       IN [heap |-> set_next(linked, head, new_link), ret |-> new_link, fault |-> "none"]

\* an insert_next that forgets to link the old next link behind the new one
double_link_insert_next_drops_tail(h, head, v) ==
  IF isnan(v) THEN [heap |-> h, ret |-> NULL, fault |-> "assert"]
  ELSE LET new_link == Cardinality(DOMAIN h) + 1
           made == (new_link :> [value_ |-> v, prev_ |-> head, next_ |-> NULL]) @@ h
       IN [heap |-> [made EXCEPT ![head].next_ = new_link], ret |-> new_link,
           fault |-> "none"]

\* double_link::insert_next(head, value)
double_link_insert_next(h, head, v) ==
  IF isnan(v) THEN [heap |-> h, ret |-> NULL, fault |-> "assert"]
  ELSE LET new_link == NewLink(h)
           made == make_shared_link(h, "double_link", v)
           linked == IF made[head].next_ # NULL
                     THEN set_prev(set_next(made, new_link, made[head].next_),
                                   made[head].next_, new_link)
                     ELSE made
       IN [heap |-> set_prev(set_next(linked, head, new_link), new_link, head),
           ret |-> new_link, fault |-> "none"]

\* an insert_prev that does not relink the old prev link to the new one
double_link_insert_prev_keeps_next(h, head, v) ==
  IF isnan(v) THEN [heap |-> h, ret |-> NULL, fault |-> "assert"]
  ELSE LET new_link == Cardinality(DOMAIN h) + 1
           made == (new_link :> [value_ |-> v, prev_ |-> h[head].prev_, next_ |-> head]) @@ h
       IN [heap |-> [made EXCEPT ![head].prev_ = new_link], ret |-> new_link,
           fault |-> "none"]

\* double_link::insert_prev(head, value)
double_link_insert_prev(h, head, v) ==
  IF isnan(v) THEN [heap |-> h, ret |-> NULL, fault |-> "assert"]
  ELSE LET new_link == NewLink(h)
           made == make_shared_link(h, "double_link", v)
           linked == IF made[head].prev_ # NULL
                     THEN set_next(set_prev(made, new_link, made[head].prev_),
                                   made[head].prev_, new_link)
                     ELSE made
       IN [heap |-> set_next(set_prev(linked, head, new_link), new_link, head),
           ret |-> new_link, fault |-> "none"]

\* link_t::insert_next(head, value)
insert_next(h, t, head, v) ==
  IF t = "single_link" THEN single_link_insert_next(h, head, v)
  ELSE double_link_insert_next(h, head, v)

\* an insert_links that inserts every value right behind head
RECURSIVE insert_links_at_head_loop(_, _, _, _, _, _)
insert_links_at_head_loop(h, t, head, first, last, values) ==
  IF values = <<>> THEN [heap |-> h, ret |-> <<first, last>>, fault |-> "none"]
  ELSE LET r == insert_next(h, t, head, Head(values))
       IN IF r.fault # "none" THEN r
          ELSE insert_links_at_head_loop(r.heap, t, head,
                 IF first = NULL THEN r.ret ELSE first, r.ret, Tail(values))
insert_links_at_head(h, t, head, values) ==
  insert_links_at_head_loop(h, t, head, NULL, head, values)

\* the iterations of the loop of insert_links over the values left
RECURSIVE insert_links_loop(_, _, _, _, _)
insert_links_loop(h, t, first, last, values) ==
  IF values = <<>> THEN [heap |-> h, ret |-> <<first, last>>, fault |-> "none"]
  ELSE LET r == insert_next(h, t, last, Head(values))
       IN IF r.fault # "none" THEN r
          ELSE insert_links_loop(r.heap, t, IF first = NULL THEN r.ret ELSE first,
                                 r.ret, Tail(values))

\* insert_links<link_t>(head, values): last = head, first = nullptr
insert_links(h, t, head, values) == insert_links_loop(h, t, NULL, head, values)

\* the iterations of the loop of double_link::insert_prev(head, values)
RECURSIVE double_link_insert_prev_loop(_, _, _, _, _)
double_link_insert_prev_loop(h, head, first, last, values) ==
  IF values = <<>> THEN [heap |-> h, ret |-> <<first, last>>, fault |-> "none"]
  ELSE LET r == double_link_insert_prev(h, head, Head(values))
       IN IF r.fault # "none" THEN r
          ELSE double_link_insert_prev_loop(r.heap, head,
                 IF first = NULL THEN r.ret ELSE first, r.ret, Tail(values))

\* double_link::insert_prev(head, values): an empty pair for no values
double_link_insert_prev_values(h, head, values) ==
  IF Len(values) = 0 THEN [heap |-> h, ret |-> <<NULL, NULL>>, fault |-> "none"]
  ELSE double_link_insert_prev_loop(h, head, NULL, head, values)

\* count_links(head): the loop from cur with n_links counted so far; on a
\* circular chain the loop does not end, which the result -1 stands for
RECURSIVE count_links_loop(_, _, _)
count_links_loop(h, cur, n_links) ==
  IF cur = NULL THEN n_links
  ELSE IF n_links > Cardinality(DOMAIN h) THEN -1
  ELSE count_links_loop(h, h[cur].next_, n_links + 1)
count_links(h, head) == count_links_loop(h, head, 0)

\* double_link::n_prev: the same loop along prev
RECURSIVE n_prev_loop(_, _, _)
n_prev_loop(h, cur, n) ==
  IF cur = NULL THEN n
  ELSE IF n > Cardinality(DOMAIN h) THEN -1
  ELSE n_prev_loop(h, h[cur].prev_, n + 1)
n_prev(h, this) == n_prev_loop(h, h[this].prev_, 0)

\* single_link::n_next, double_link::n_next
n_next(h, this) == count_links(h, h[this].next_)

\* single_link::n_links is n_next() + 1, double_link::n_links is
\* n_prev() + n_next() + 1
n_links(h, this) ==
  IF IsSingleLink THEN IF n_next(h, this) < 0 THEN -1 ELSE n_next(h, this) + 1
  ELSE IF n_prev(h, this) < 0 \/ n_next(h, this) < 0 THEN -1
       ELSE n_prev(h, this) + n_next(h, this) + 1

\* the vectors of values the linker passes
LinkValues == UNION {[1..k -> Doubles] : k \in 0..MaxInsert}

\* a call result r is taken over; op.child holds the vector passed, if any
Linked(r, name, n, v, values) ==
  /\ heap' = r.heap /\ ret' = r.ret /\ fault' = r.fault
  /\ Cardinality(DOMAIN r.heap) <= MaxChain
  /\ op' = Call(name, n, v, <<values>>, FALSE)
  /\ UNCHANGED <<frame, client, lib, pure, inserted, edits>>

\* link_t::insert_next(n, v), also reached through insert_link<link_t>(n, v)
LinkInsertNext(n, v) ==
  /\ Running /\ (IsSingleLink \/ IsDoubleLink)
  /\ Linked(insert_next(heap, link_t, n, v), "insert_next", n, v, <<v>>)

\* link_t::insert_next(n, values), which is insert_links<link_t>(n, values)
LinkInsertLinks(n, values) ==
  /\ Running /\ (IsSingleLink \/ IsDoubleLink)
  /\ Linked(insert_links(heap, link_t, n, values), "insert_links", n, Len(values), values)

\* double_link::insert_prev(n, v)
LinkInsertPrev(n, v) ==
  /\ Running /\ IsDoubleLink
  /\ Linked(double_link_insert_prev(heap, n, v), "insert_prev", n, v, <<v>>)

\* double_link::insert_prev(n, values)
LinkInsertPrevs(n, values) ==
  /\ Running /\ IsDoubleLink
  /\ Linked(double_link_insert_prev_values(heap, n, values), "insert_prevs", n,
            Len(values), values)

InitChain ==
  /\ client = "linker"
  /\ lib \in {"cpp_single_link", "cpp_double_link"}
  /\ heap = (1 :> IF lib = "cpp_single_link" THEN single_link(1, NULL)
                  ELSE double_link(1, NULL, NULL))
  /\ fault = "none"
  /\ op = NoOp
  /\ ret = NULL
  /\ pure = FALSE
  /\ inserted = {}
  /\ edits = 0
  /\ frame = NoFrame

NextChain ==
  \/ \E n \in DOMAIN heap, v \in Doubles : LinkInsertNext(n, v)
  \/ \E n \in DOMAIN heap, values \in LinkValues : LinkInsertLinks(n, values)
  \/ \E n \in DOMAIN heap, v \in Doubles : LinkInsertPrev(n, v)
  \/ \E n \in DOMAIN heap, values \in LinkValues : LinkInsertPrevs(n, values)

SpecChain == InitChain /\ [][NextChain]_vars

-----------------------------------------------------------------------------
(* C++ binary_tree with its children vectors as objects of their own, for   *)
(* the clients that hold a vector through more than one handle.  A node is  *)
(* [value_, children_], children_ being the handle of a vector, and a       *)
(* vector is [slots].                                                       *)


\* operator new: the lowest handle that is free
NewObject(h) == CHOOSE i \in 1..(Cardinality(DOMAIN h) + 1) : i \notin DOMAIN h

\* the objects that the live handles S keep alive, the others being
\* destroyed: a node keeps its vector and a vector the nodes in its slots
RECURSIVE Alive(_, _)
Alive(h, S) ==
  LET Refs(x) == IF "slots" \in DOMAIN h[x]
                 THEN {h[x].slots[i] : i \in DOMAIN h[x].slots} \ {NULL}
                 ELSE {h[x].children_}
      T == S \cup UNION {Refs(x) : x \in S}
  IN IF T = S THEN [x \in S |-> h[x]] ELSE Alive(h, T)

\* std::make_shared<binary_tree>(v): the node, over a new vector of two
\* null slots
make_shared_binary_tree(h, v) ==
  LET node == NewObject(h)
      vec == NewObject((node :> [value_ |-> v]) @@ h)
  IN [heap |-> (node :> [value_ |-> v, children_ |-> vec]) @@
                 (vec :> [slots |-> <<NULL, NULL>>]) @@ h,
      ret |-> node]

\* binary_tree::set_left: std::move(children()->at(1)) moves the right slot
\* out of the old vector, which leaves that slot null, into a new vector
\* {new_left, old right}; set_children then installs the new vector
binary_tree_set_left(h, this, new_left) ==
  LET old == h[this].children_
      moved == h[old].slots[2]
      emptied == [h EXCEPT ![old].slots[2] = NULL]
      vec == NewObject(emptied)
      made == (vec :> [slots |-> <<new_left, moved>>]) @@ emptied
  IN [made EXCEPT ![this].children_ = vec]

\* binary_tree::set_right: the same with std::move(children()->at(0))
binary_tree_set_right(h, this, new_right) ==
  LET old == h[this].children_
      moved == h[old].slots[1]
      emptied == [h EXCEPT ![old].slots[1] = NULL]
      vec == NewObject(emptied)
      made == (vec :> [slots |-> <<moved, new_right>>]) @@ emptied
  IN [made EXCEPT ![this].children_ = vec]

\* The client holds node 1 and the vector handle in ret, if any.

\* ret = n->children(): the client keeps the handle of the vector of n
SharedChildren(n) ==
  /\ Running /\ lib = "cpp_binary_tree_shared" /\ "value_" \in DOMAIN heap[n]
  /\ ret' = heap[n].children_
  /\ heap' = Alive(heap, {1, ret'})
  /\ op' = Call("children", n, NaN, NULL, FALSE)
  /\ UNCHANGED <<frame, client, lib, fault, pure, inserted, edits>>

\* m->set_children(n->children()): m shares the vector of n
SharedSetChildren(m, n) ==
  /\ Running /\ lib = "cpp_binary_tree_shared" /\ edits < MaxShares /\ "value_" \in DOMAIN heap[m] /\ "value_" \in DOMAIN heap[n] /\ m # n
  /\ heap' = Alive([heap EXCEPT ![m].children_ = heap[n].children_], {1, ret} \ {NULL})
  /\ op' = Call("set_children", m, NaN, n, FALSE)
  /\ edits' = edits + 1
  /\ UNCHANGED <<frame, client, lib, fault, ret, pure, inserted>>

\* n->set_left(nullptr), or n->set_left(std::make_shared<binary_tree>(c));
\* op.child is the vector n had before the call
SharedSetLeft(n, c) ==
  /\ Running /\ lib = "cpp_binary_tree_shared" /\ edits < MaxShares /\ "value_" \in DOMAIN heap[n]
  /\ LET made == IF c = NULL THEN [heap |-> heap, ret |-> NULL]
                 ELSE make_shared_binary_tree(heap, c)
     IN heap' = Alive(binary_tree_set_left(made.heap, n, made.ret), {1, ret} \ {NULL})
  /\ Cardinality(DOMAIN heap') <= MaxObjects
  /\ op' = Call("set_left", n, c, heap[n].children_, FALSE)
  /\ edits' = edits + 1
  /\ UNCHANGED <<frame, client, lib, fault, ret, pure, inserted>>

\* n->set_right(nullptr), or n->set_right(std::make_shared<binary_tree>(c))
SharedSetRight(n, c) ==
  /\ Running /\ lib = "cpp_binary_tree_shared" /\ edits < MaxShares /\ "value_" \in DOMAIN heap[n]
  /\ LET made == IF c = NULL THEN [heap |-> heap, ret |-> NULL]
                 ELSE make_shared_binary_tree(heap, c)
     IN heap' = Alive(binary_tree_set_right(made.heap, n, made.ret), {1, ret} \ {NULL})
  /\ Cardinality(DOMAIN heap') <= MaxObjects
  /\ op' = Call("set_right", n, c, heap[n].children_, FALSE)
  /\ edits' = edits + 1
  /\ UNCHANGED <<frame, client, lib, fault, ret, pure, inserted>>

InitShare ==
  /\ client = "sharer"
  /\ lib = "cpp_binary_tree_shared"
  /\ heap = make_shared_binary_tree(<<>>, 1).heap
  /\ fault = "none"
  /\ op = NoOp
  /\ ret = NULL
  /\ pure = FALSE
  /\ inserted = {}
  /\ edits = 0
  /\ frame = NoFrame

NextShare ==
  \/ \E n \in DOMAIN heap : SharedChildren(n)
  \/ \E m \in DOMAIN heap, n \in DOMAIN heap : SharedSetChildren(m, n)
  \/ \E n \in DOMAIN heap, c \in Finite \cup {NULL} : SharedSetLeft(n, c)
  \/ \E n \in DOMAIN heap, c \in Finite \cup {NULL} : SharedSetRight(n, c)

SpecShare == InitShare /\ [][NextShare]_vars

-----------------------------------------------------------------------------
(* Properties of the binary trees *)

\* the ascending sequence of a finite set of finite doubles
RECURSIVE Ascending(_)
Ascending(S) ==
  IF S = {} THEN <<>>
  ELSE LET m == CHOOSE x \in S : \A y \in S : x <= y
       IN <<m>> \o Ascending(S \ {m})

\* sorted_values of a child slot: nothing for an absent child
SlotValues(h, x) ==
  IF x = NULL THEN <<>>
  ELSE IF IsCpp THEN sorted_values(h, x) ELSE binary_tree_sorted_values(h, x)

Populated(h, n) == ~isnan(ValueOf(h, n))

\* C1: after distinct non-unset values were inserted one by one through insert
\* on the root of a tree that started as one empty node, sorted_values() on the
\* root is the ascending sequence of exactly the inserted values.
C1_SortedRoundTrip ==
  (pure /\ op.name = "sorted_values" /\ op.node = 1) => ret = Ascending(inserted)

C1_Witness ==
  /\ pure /\ op.name = "sorted_values" /\ op.node = 1
  /\ Cardinality(inserted) >= 3
  /\ Left(heap, 1) # NULL /\ Right(heap, 1) # NULL

\* C2: insert of the unset sentinel fails with a precondition violation on any
\* node and leaves the tree unchanged, in C and in C++.
C2_NaNInsertFails ==
  [][(op'.name = "insert" /\ isnan(op'.value)) => (fault' = "assert" /\ heap' = heap)]_vars

C8_SetSlotFrame ==
  [][/\ op'.name = "set_left" =>
          /\ Left(heap', op'.node) = op'.child
          /\ Right(heap', op'.node) = Right(heap, op'.node)
          /\ ValueOf(heap', op'.node) = ValueOf(heap, op'.node)
     /\ op'.name = "set_right" =>
          /\ Right(heap', op'.node) = op'.child
          /\ Left(heap', op'.node) = Left(heap, op'.node)
          /\ ValueOf(heap', op'.node) = ValueOf(heap, op'.node)]_vars

C8_Witness ==
  /\ op.name = "set_left" /\ op.child # NULL
  /\ Left(heap, op.node) = op.child
  /\ Right(heap, op.node) # NULL
  /\ Populated(heap, op.node)

\* C9 as claimed: sorted_values on a node whose value is unset returns the
\* sorted values of its left subtree followed by those of its right subtree,
\* in C++ and in C.
C9_Original ==
  (op.name = "sorted_values" /\ ~Populated(heap, op.node))
    => ret = SlotValues(heap, Left(heap, op.node)) \o SlotValues(heap, Right(heap, op.node))

\* C9 as amended: binary_tree::sorted_values (C++) on an unset node returns the
\* sorted values of its left subtree followed by those of its right subtree;
\* binary_tree_sorted_values (C) on an unset node returns no value at all,
\* whatever its children hold.
C9_UnsetNodeValues ==
  (op.name = "sorted_values" /\ ~Populated(heap, op.node))
    => IF IsCpp
       THEN ret = SlotValues(heap, Left(heap, op.node)) \o SlotValues(heap, Right(heap, op.node))
       ELSE ret = <<>>

C9_Witness ==
  /\ IsCpp /\ op.name = "sorted_values" /\ ~Populated(heap, op.node)
  /\ Left(heap, op.node) # NULL
  /\ ret # <<>>

\* C10 as claimed: once a node's value is a real value, no later operation on
\* the tree makes that node's value unset again.
C10_Original ==
  [][\A n \in DOMAIN heap \cap DOMAIN heap' :
       Populated(heap, n) => Populated(heap', n)]_vars

\* C10 as amended: insert, set_left, set_right and sorted_values never change
\* the value of a populated node, so none of them returns a node to Empty, and
\* an insert of a real value leaves the node it returns populated; only
\* tree::set_value, which binary_tree inherits, can make a populated node unset.
C10_OnlySetValueUnsets ==
  [][op'.name # "set_value" =>
       /\ \A n \in DOMAIN heap \cap DOMAIN heap' :
            Populated(heap, n) => ValueOf(heap', n) = ValueOf(heap, n)
       /\ (op'.name = "insert" /\ ~isnan(op'.value) /\ fault' = "none")
            => ValueOf(heap', ret') = op'.value]_vars

C10_Witness ==
  /\ op.name = "insert" /\ fault = "none" /\ ret # op.node
  /\ Populated(heap, op.node) /\ Populated(heap, ret)
  /\ edits > 0

-----------------------------------------------------------------------------
(* Properties of the general trees and of the frees *)

\* the children of n that are there, in child order
KidSeq(h, n) ==
  IF IsGen THEN IF h[n].children = NullArray THEN <<>>
                ELSE SelectSeq(Elems(h[n].children), LAMBDA k : k # NULL)
  ELSE IF h[n].children_ = nullptr THEN <<>>
  ELSE SelectSeq(h[n].children_[1], LAMBDA k : k # NULL)

\* what the library's dfs lists for the tree of n
DfsOf(h, n) ==
  IF IsGen THEN LET r == gen_tree_dfs(h, n)
                IN IF r.nodes = NullArray THEN <<>> ELSE Elems(r.nodes)
  ELSE dfs(h, n)

RECURSIVE Flatten(_)
Flatten(seqs) == IF Len(seqs) = 0 THEN <<>> ELSE Head(seqs) \o Flatten(Tail(seqs))

Listed(s) == {s[i] : i \in 1..Len(s)}
Index(s, x) == CHOOSE i \in 1..Len(s) : s[i] = x

\* C4: the list dfs returned for a node is the concatenation of the lists of
\* its children that are there, in child order, followed by the node; the node
\* is last, every node of the subtree is listed once and after all of its
\* descendants, and a node without children yields the list of itself.
C4_DfsPostOrder ==
  (op.name = "dfs" /\ op.node # NULL) =>
    LET kids == KidSeq(heap, op.node) IN
    /\ fault = "none"
    /\ ret = Flatten([i \in 1..Len(kids) |-> DfsOf(heap, kids[i])]) \o <<op.node>>
    /\ ret[Len(ret)] = op.node
    /\ Listed(ret) = Subtree(heap, op.node)
    /\ Len(ret) = Cardinality(Subtree(heap, op.node))
    /\ \A i, j \in 1..Len(ret) :
         (ret[i] # ret[j] /\ ret[i] \in Subtree(heap, ret[j])) => i < j
    /\ (Len(kids) = 0 => ret = <<op.node>>)

\* dfs has listed a tree of three levels whose root has several children
C4_Witness ==
  /\ op.name = "dfs" /\ op.node # NULL /\ fault = "none"
  /\ Len(KidSeq(heap, op.node)) >= 2
  /\ \E k \in Kids(heap, op.node) : Kids(heap, k) # {}
  /\ Len(ret) >= 4

\* the number of edges between the node the walk started at and n
RECURSIVE Depth(_, _, _)
Depth(h, root, n) ==
  IF n = root THEN 0
  ELSE 1 + Depth(h, root, CHOOSE p \in Subtree(h, root) : n \in Kids(h, p))

\* C5 as stated: the list bfs returned starts with the node it was called on,
\* lists every node of the subtree once in non-decreasing depth, the children
\* of one node in child order, and the children of an earlier-listed node
\* before those of a later-listed node of the same depth.
C5_BfsLevelOrder ==
  (op.name = "bfs") =>
    LET D(n) == Depth(heap, op.node, n) IN
    /\ fault = "none"
    /\ Len(ret) = Cardinality(Subtree(heap, op.node))
    /\ Listed(ret) = Subtree(heap, op.node)
    /\ ret[1] = op.node
    /\ \A i, j \in 1..Len(ret) : i < j => D(ret[i]) <= D(ret[j])
    /\ \A p \in Listed(ret) :
         LET kids == KidSeq(heap, p)
         IN \A a, b \in 1..Len(kids) :
              a < b => Index(ret, kids[a]) < Index(ret, kids[b])
    /\ \A i, j \in 1..Len(ret) :
         (i < j /\ D(ret[i]) = D(ret[j])) =>
           \A x \in Kids(heap, ret[i]), y \in Kids(heap, ret[j]) :
             Index(ret, x) < Index(ret, y)

C7_CountMatchesChildren ==
  IsGen => \A n \in DOMAIN heap :
             (heap[n].n_children = 0) <=> (heap[n].children = NullArray)

-----------------------------------------------------------------------------
(* More properties of the binary trees *)

\* C11 as claimed: in every state that create, set_left, set_right and insert
\* reach, a node whose value is unset has neither a left nor a right child.
C11_Original ==
  \A n \in DOMAIN heap : ~Populated(heap, n) => Kids(heap, n) = {}

\* C11 as amended: in every state reached from one newly created empty node by
\* insert calls alone, a node whose value is unset has no child, and an insert
\* of a real value on an unset node makes that node hold the value.
C11_InsertOnlyUnsetIsLeaf ==
  [][edits' = 0 =>
       /\ \A n \in DOMAIN heap' : ~Populated(heap', n) => Kids(heap', n) = {}
       /\ (/\ op'.name = "insert" /\ ~isnan(op'.value) /\ fault' = "none"
           /\ ~Populated(heap, op'.node))
            => /\ ValueOf(heap', op'.node) = op'.value
               /\ DOMAIN heap' = DOMAIN heap]_vars

\* an insert-only tree in which a node that insert created unset holds a value
C11_Witness ==
  /\ edits = 0 /\ op.name = "insert" /\ fault = "none"
  /\ ret # op.node /\ Populated(heap, ret) /\ Kids(heap, ret) = {}
  /\ Cardinality(DOMAIN heap) >= 3

\* C12: an insert of a real value on a node returns that node or one of its
\* descendants, the returned node holds the value after the call, and on an
\* unset node the returned node is the node itself.
C12_InsertReturnsHolder ==
  [][(op'.name = "insert" /\ ~isnan(op'.value) /\ fault' = "none") =>
       /\ ret' \in Subtree(heap', op'.node)
       /\ ValueOf(heap', ret') = op'.value
       /\ ~Populated(heap, op'.node) => ret' = op'.node]_vars

\* an insert on a node other than the root has returned a new child of it
C12_Witness ==
  /\ op.name = "insert" /\ fault = "none" /\ ~isnan(op.value)
  /\ op.node # 1 /\ ret \in Kids(heap, op.node)
  /\ ValueOf(heap, ret) = op.value

-----------------------------------------------------------------------------
(* Walks over trees with absent child slots *)

\* every C++ node of the subtree of n has a children vector
HasVectors(h, n) == IsGen \/ \A m \in Subtree(h, n) : h[m].children_ # nullptr

\* what dfs lists for a child slot: nothing for an absent child
SlotDfs(h, x) == IF x = NULL THEN <<>> ELSE dfs(h, x)

\* C13: a walk of a tree whose nodes have absent child slots lists no absent
\* slot and as many nodes as the tree has (gen_tree_dfs writes that number to
\* *n_nodes_p, and 0 for a NULL tree); on a binary tree dfs lists the left
\* subtree, then the right subtree, then the node, and bfs lists the node
\* first, the nodes in non-decreasing depth and a left child before the right
\* child of the same node.
C13_WalksSkipAbsentSlots ==
  (op.name \in {"dfs", "bfs"}) =>
    IF op.node = NULL THEN ret = <<>> /\ op.value = 0 /\ fault = "none"
    ELSE HasVectors(heap, op.node) =>
      /\ fault = "none"
      /\ NULL \notin Listed(ret)
      /\ Listed(ret) = Subtree(heap, op.node)
      /\ Len(ret) = Cardinality(Subtree(heap, op.node))
      /\ op.name = "dfs" => op.value = Cardinality(Subtree(heap, op.node))
      /\ (IsCpp /\ op.name = "dfs") =>
           ret = SlotDfs(heap, left(heap, op.node))
                   \o SlotDfs(heap, right(heap, op.node)) \o <<op.node>>
      /\ (IsCpp /\ op.name = "bfs") =>
           /\ ret[1] = op.node
           /\ \A i, j \in 1..Len(ret) :
                i < j => Depth(heap, op.node, ret[i]) <= Depth(heap, op.node, ret[j])
           /\ \A p \in Listed(ret) :
                (left(heap, p) # NULL /\ right(heap, p) # NULL)
                  => Index(ret, left(heap, p)) < Index(ret, right(heap, p))

\* gen_tree_dfs has walked a tree whose root has an absent slot before a child
C13_Witness ==
  /\ IsGen /\ op.name = "dfs" /\ op.node = 1 /\ fault = "none"
  /\ heap[1].n_children = 2
  /\ Elems(heap[1].children)[1] = NULL /\ Elems(heap[1].children)[2] # NULL
  /\ Len(ret) >= 3 /\ op.value = Len(ret)

-----------------------------------------------------------------------------
(* More properties of the frees *)

\* C14: when free_children returns, shallow or deep, the node has no children
\* (n_children 0 and children NULL, or left and right NULL), is still
\* allocated and holds the value it held.
C14_FreeChildrenEmpties ==
  [][(op'.name = "free_children" /\ fault' = "none") =>
       /\ op'.node \in DOMAIN heap'
       /\ IF IsGen
          THEN /\ heap'[op'.node].n_children = 0
               /\ heap'[op'.node].children = NullArray
          ELSE /\ heap'[op'.node].left = NULL
               /\ heap'[op'.node].right = NULL
       /\ heap'[op'.node].value = heap[op'.node].value
       /\ op'.node \notin Listed(ret')]_vars

\* a shallow free_children has released two children of a node
C14_Witness ==
  /\ op.name = "free_children" /\ ~op.had /\ fault = "none"
  /\ Len(ret) >= 2 /\ op.node \in DOMAIN heap

-----------------------------------------------------------------------------
(* Properties of make_children *)

\* the nodes of a children pointer: none for NULL
Made(c) == IF c = NullArray THEN <<>> ELSE Elems(c)

\* C16: make_children of the values v1..vn returns n distinct nodes that were
\* not allocated before, the i-th with the value vi and without children, and
\* changes no node that was.
C16_MakeChildrenLeaves ==
  [][(op'.name = "make_children" /\ fault' = "none") =>
       LET n == op'.value
           values == Elems(op'.child)
           made == Made(ret')
       IN /\ Len(made) = n
          /\ Cardinality(Listed(made)) = n
          /\ Listed(made) \subseteq DOMAIN heap' \ DOMAIN heap
          /\ DOMAIN heap' = DOMAIN heap \cup Listed(made)
          /\ \A m \in DOMAIN heap : heap'[m] = heap[m]
          /\ \A i \in 1..n :
               IF IsGen
               THEN /\ heap'[made[i]].value = values[i]
                    /\ heap'[made[i]].n_children = 0
                    /\ heap'[made[i]].children = NullArray
               ELSE /\ value(heap', made[i]) = values[i]
                    /\ children(heap', made[i]) = make_shared(<<>>)]_vars

\* two children with different values, in the order of the values
C16_Witness ==
  /\ op.name = "make_children" /\ fault = "none" /\ op.value = 2
  /\ Len(Made(ret)) = 2
  /\ Elems(op.child)[1] # Elems(op.child)[2]
  /\ op.node # 1

\* C17 as stated: make_children with an empty input (n = 0 in C, whatever
\* values is; an empty vector in C++) does not fail and returns the empty
\* collection.
C17_EmptyInputIsNoError ==
  (op.name = "make_children" /\ op.value = 0) =>
    /\ fault = "none"
    /\ Len(Made(ret)) = 0
    /\ IsGen => ret = NullArray

-----------------------------------------------------------------------------
(* The two slots of binary_tree *)

\* C18: every binary_tree node keeps a children vector of exactly two slots,
\* each one null or a live node, after any set_left, set_right and insert
\* calls, so left() and right() are always defined.
C18_TwoSlots ==
  IsCpp =>
    \A n \in DOMAIN heap :
      /\ children(heap, n) # nullptr
      /\ Len(children(heap, n)[1]) = 2
      /\ left(heap, n) \in DOMAIN heap \cup {NULL}
      /\ right(heap, n) \in DOMAIN heap \cup {NULL}

\* after a set_right and inserts: a root with both slots occupied over two
\* nodes with both slots null
C18_Witness ==
  /\ IsCpp /\ fault = "none" /\ op.name = "insert" /\ edits > 0
  /\ left(heap, 1) # NULL /\ right(heap, 1) # NULL
  /\ left(heap, right(heap, 1)) = NULL /\ right(heap, right(heap, 1)) = NULL
  /\ Len(children(heap, 1)[1]) = 2

-----------------------------------------------------------------------------
(* gen_tree_free_deep of the structures variant *)

\* C19 as stated: gen_tree_free_deep of the structures variant frees the node
\* and its whole subtree; no node at any depth below the node is still
\* allocated after the call.
C19_StructFreeDeepReleasesAll ==
  [][op'.name = "structures_free_deep" =>
       /\ fault' = "none"
       /\ \A m \in Subtree(heap, op'.node) : m \in Listed(ret')]_vars

-----------------------------------------------------------------------------
(* The counting functions of the linked lists *)

\* the number of links that follow n along the p pointers
RECURSIVE LinksAlong(_, _, _)
LinksAlong(h, n, p) == IF h[n][p] = NULL THEN 0 ELSE 1 + LinksAlong(h, h[n][p], p)

\* C20 as stated: on a finite NULL-terminated list, a call of
\* single_link_n_next, single_link_n_links, double_link_n_prev or
\* double_link_n_next terminates, and returns the number of links after (or
\* before) the given link, plus 1 for single_link_n_links.
C20_CountsTerminate ==
  (frame.pc = "while") ~>
    (/\ frame.pc = "idle" /\ op.name \in CountFns /\ op.had
     /\ ret = LinksAlong(heap, op.node, FollowedBy(op.name))
               + (IF op.name = "single_link_n_links" THEN 1 ELSE 0))

-----------------------------------------------------------------------------
(* The freeing functions of the linked lists *)

\* the live links that follow n along the p pointers, nearest first
RECURSIVE ChainAlong(_, _, _)
ChainAlong(h, n, p) ==
  IF h[n][p] \notin DOMAIN h THEN <<>> ELSE <<h[n][p]>> \o ChainAlong(h, h[n][p], p)

\* C21 as stated: single_link_free_next_links, double_link_free_prev_links
\* and double_link_free_next_links free every link after (before) the given
\* link exactly once and leave its next (prev) pointer NULL.
C21_FreeLinksClearsPointer ==
  [][op'.name \in FreeFns =>
       /\ fault' = "none"
       /\ ret' = ChainAlong(heap, op'.node, FreedAlong(op'.name))
       /\ Listed(ret') \cap DOMAIN heap' = {}
       /\ heap'[op'.node][FreedAlong(op'.name)] = NULL]_vars

-----------------------------------------------------------------------------
(* Properties of the C++ linked lists *)

\* the links after n along next_, and before n along prev_, nearest first;
\* a walk longer than the heap is cut
RECURSIVE After(_, _, _)
After(h, n, fuel) ==
  IF h[n].next_ = NULL \/ fuel = 0 THEN <<>>
  ELSE <<h[n].next_>> \o After(h, h[n].next_, fuel - 1)
RECURSIVE Before(_, _, _)
Before(h, n, fuel) ==
  IF h[n].prev_ = NULL \/ fuel = 0 THEN <<>>
  ELSE <<h[n].prev_>> \o Before(h, h[n].prev_, fuel - 1)
NextChainOf(h, n) == After(h, n, Cardinality(DOMAIN h))
PrevChainOf(h, n) == Before(h, n, Cardinality(DOMAIN h))
ValuesOf(h, nodes) == [i \in 1..Len(nodes) |-> h[nodes[i]].value_]
NoNaN(values) == \A i \in 1..Len(values) : ~isnan(values[i])

\* what C22 says of a step that is insert_links(head, values)
InsertLinksEffect ==
  LET head == op'.node
      values == op'.child[1]
      n == Len(values)
      old == NextChainOf(heap, head)
      new == NextChainOf(heap', head)
  IN /\ fault' = "none"
     /\ Len(new) = Len(old) + n
     /\ SubSeq(new, n + 1, Len(new)) = old
     /\ ValuesOf(heap', old) = ValuesOf(heap, old)
     /\ \A i \in 1..n : new[i] \notin DOMAIN heap /\ heap'[new[i]].value_ = values[i]
     /\ ret' = <<new[1], new[n]>>
     /\ heap'[head].next_ = ret'[1]
     /\ count_links(heap', head) = count_links(heap, head) + n

\* C22 as stated: insert_links(head, [v1..vn]) with n >= 1 leaves the chain
\* head, v1, ..., vn and then the old chain after head, returns the nodes of
\* v1 and vn, and adds n links, whatever the values are.
C22_Original ==
  [][(op'.name = "insert_links" /\ op'.value >= 1) => InsertLinksEffect]_vars

\* C22: the same for values none of which is NaN; with a NaN among them the
\* call dies on the assertion of insert_next.
C22_InsertLinksInOrder ==
  [][(op'.name = "insert_links" /\ op'.value >= 1) =>
       IF NoNaN(op'.child[1]) THEN InsertLinksEffect ELSE fault' = "assert"]_vars

\* two different values were inserted in front of an old next link
C22_Witness ==
  /\ op.name = "insert_links" /\ fault = "none" /\ op.value = 2
  /\ op.child[1][1] # op.child[1][2]
  /\ Len(NextChainOf(heap, op.node)) > 2
  /\ heap[op.node].next_ = ret[1]

\* what C23 says of a step that is double_link::insert_prev(head, values)
InsertPrevEffect ==
  LET head == op'.node
      values == op'.child[1]
      n == Len(values)
      old == PrevChainOf(heap, head)
      new == PrevChainOf(heap', head)
  IN /\ fault' = "none"
     /\ Len(new) = Len(old) + n
     /\ SubSeq(new, n + 1, Len(new)) = old
     /\ \A i \in 1..n :
          /\ new[i] \notin DOMAIN heap
          /\ heap'[new[i]].value_ = values[n - i + 1]
          /\ heap'[new[i]].next_ = (IF i = 1 THEN head ELSE new[i - 1])
     /\ ret' = <<new[n], new[1]>>
     /\ heap'[head].prev_ = ret'[2]
     /\ heap'[ret'[1]].prev_ = heap[head].prev_
     /\ heap[head].prev_ # NULL => heap'[heap[head].prev_].next_ = ret'[1]

\* C23 as stated: double_link::insert_prev(head, [v1..vn]) with n >= 1 puts
\* the new nodes between the old prev chain of head and head in input order
\* and returns the nodes of v1 and vn, whatever the values are.
C23_Original ==
  [][(op'.name = "insert_prevs" /\ op'.value >= 1) => InsertPrevEffect]_vars

\* C23: the same for values none of which is NaN; with a NaN among them the
\* call dies on the assertion of insert_prev.
C23_InsertPrevInOrder ==
  [][(op'.name = "insert_prevs" /\ op'.value >= 1) =>
       IF NoNaN(op'.child[1]) THEN InsertPrevEffect ELSE fault' = "assert"]_vars

\* two different values were inserted behind an old prev link
C23_Witness ==
  /\ op.name = "insert_prevs" /\ fault = "none" /\ op.value = 2
  /\ op.child[1][1] # op.child[1][2]
  /\ Len(PrevChainOf(heap, op.node)) > 2
  /\ heap[op.node].prev_ = ret[2]

\* every link of a double_link list is linked back by its neighbours, and
\* n_links counts the whole list from every link of it
DoublyLinked(h) ==
  \A x \in DOMAIN h :
    /\ h[x].next_ # NULL => h[x].next_ \in DOMAIN h /\ h[h[x].next_].prev_ = x
    /\ h[x].prev_ # NULL => h[x].prev_ \in DOMAIN h /\ h[h[x].prev_].next_ = x
    /\ n_links(h, x) = Cardinality(DOMAIN h)

-----------------------------------------------------------------------------
(* Shape, order and frame of insert *)

\* the nodes of the tree of node 1 form one chain of right children
RightChain(h) ==
  /\ \A n \in DOMAIN h : Left(h, n) = NULL
  /\ Cardinality({n \in DOMAIN h : Right(h, n) = NULL}) = 1
  /\ Subtree(h, 1) = DOMAIN h

\* C24: nothing rebalances.  While the values inserted on the root of a tree
\* that began empty are strictly ascending, the tree is a chain of right
\* children with one node per value, the value inserted last at its end,
\* and the first value inserted stays at the root.
C24_AscendingInsertsChain ==
  [][(/\ op'.name = "insert" /\ fault' = "none" /\ pure'
      /\ RightChain(heap)
      /\ \A w \in Values(heap, 1) : op'.value > w) =>
       /\ RightChain(heap')
       /\ Cardinality(DOMAIN heap') = Cardinality(inserted')
       /\ Right(heap', ret') = NULL /\ ValueOf(heap', ret') = op'.value
       /\ Populated(heap, 1) => ValueOf(heap', 1) = ValueOf(heap, 1)]_vars

\* three ascending values have made a chain of height three
C24_Witness ==
  /\ op.name = "insert" /\ fault = "none" /\ pure
  /\ Cardinality(inserted) = 3 /\ RightChain(heap)
  /\ Right(heap, 1) # NULL /\ Right(heap, Right(heap, 1)) = ret
  /\ ValueOf(heap, 1) < ValueOf(heap, Right(heap, 1))
  /\ ValueOf(heap, Right(heap, 1)) < ValueOf(heap, ret)

\* C25 as stated: on every finite tree without cycles or shared nodes,
\* insert of a non-unset value, sorted_values, dfs and bfs terminate with a
\* result: no such call ends in a fault.
C25_OperationsTotal ==
  (/\ op.name \in {"insert", "sorted_values", "dfs", "bfs"}
   /\ op.name = "insert" => ~isnan(op.value)) =>
    fault = "none"

\* every value below the left slot of n is smaller than the value of n and
\* every value below its right slot is greater
Ordered(h, n) ==
  /\ Left(h, n) # NULL =>
       \A m \in Subtree(h, Left(h, n)) : FLt(ValueOf(h, m), ValueOf(h, n))
  /\ Right(h, n) # NULL =>
       \A m \in Subtree(h, Right(h, n)) : FLt(ValueOf(h, n), ValueOf(h, m))

\* C26: after any insert calls of non-unset values on the root of a tree
\* that began as one empty node, every node's left subtree holds strictly
\* smaller values and its right subtree strictly greater ones.
C26_SearchTreeOrder ==
  pure => \A n \in DOMAIN heap : Ordered(heap, n)

\* a root with a child on each side, reached by inserts alone
C26_Witness ==
  /\ pure /\ op.name = "insert" /\ fault = "none"
  /\ Left(heap, 1) # NULL /\ Right(heap, 1) # NULL
  /\ ValueOf(heap, Left(heap, 1)) < ValueOf(heap, 1)
  /\ ValueOf(heap, 1) < ValueOf(heap, Right(heap, 1))

\* the frame of a step that is an insert: the nodes it made are New
Leaf(h, m) == Left(h, m) = NULL /\ Right(h, m) = NULL
InsertFrame(New) ==
  /\ Cardinality(New) <= 1
  /\ DOMAIN heap \subseteq DOMAIN heap'
  /\ \A m \in New :
       /\ Leaf(heap', m)
       /\ \E q \in DOMAIN heap :
            \/ Left(heap, q) = NULL /\ Left(heap', q) = m
            \/ Right(heap, q) = NULL /\ Right(heap', q) = m
  /\ \A n \in DOMAIN heap :
       Populated(heap, n) =>
         /\ ValueOf(heap', n) = ValueOf(heap, n)
         /\ Left(heap, n) # NULL => Left(heap', n) = Left(heap, n)
         /\ Right(heap, n) # NULL => Right(heap', n) = Right(heap, n)

C28_WalksArePermutations ==
  [][((IsTree \/ IsCpp) /\ op'.name \in {"dfs", "bfs"}) =>
       /\ fault' = "none"
       /\ heap' = heap
       /\ Len(ret') = Cardinality(Subtree(heap, op'.node))
       /\ Listed(ret') = Subtree(heap, op'.node)
       /\ Listed(dfs(heap, op'.node)) = Listed(bfs(heap, op'.node).nodes)
       /\ Len(dfs(heap, op'.node)) = Len(bfs(heap, op'.node).nodes)]_vars

-----------------------------------------------------------------------------
(* The children vector that set_left and set_right replace *)

\* C30 as stated: set_left and set_right install a new two-slot vector and
\* do not modify the vector that was installed before; whoever still holds
\* that vector, the client through the handle children() returned or another
\* node that shares it, sees both its old slots afterwards.
C30_OldCollectionUntouched ==
  [][(lib = "cpp_binary_tree_shared" /\ op'.name \in {"set_left", "set_right"}) =>
       LET old == heap[op'.node].children_
       IN /\ heap'[op'.node].children_ # old
          /\ Len(heap'[heap'[op'.node].children_].slots) = 2
          /\ old \in DOMAIN heap' => heap'[old] = heap[old]]_vars

====
